---- MODULE Spec2Model ----
(***************************************************************************)
(* batlab: the analysis layer (analysis.c) reading the logs that the       *)
(* logger (batlab.c, cmd_log) appends to; the battery readers and the      *)
(* system metrics of telemetry.c; the sampling loop of cmd_log with its    *)
(* signal handler; the naming of the logs of the sessions of a host.       *)
(*                                                                         *)
(* Numbers.  The C code works on doubles.  The model keeps every value of  *)
(* a log line as a fixed-point integer in the unit the logger prints it    *)
(* with (watts in 1/1000 W, percentages in 1/10 %), and every quotient     *)
(* (a mean, an interpolated percentile) as an exact fraction               *)
(* [num |-> n, den |-> d].  A fraction with den = 0 is the result of a     *)
(* floating-point 0.0/0 (NaN).                                             *)
(***************************************************************************)
EXTENDS Integers, Sequences, FiniteSets, TLC

VARIABLES
    disk,          \* the .jsonl file as it is on disk: a sequence of lines
    appends,       \* writes of the logger that reached the disk during the analysis
    min_samples,   \* the min_samples argument of load_run_summaries / analyze_run
    pc,            \* position of the analysis (or of the percentile caller)
    line_count,    \* parse_jsonl_file: result of the counting pass
    read_lines,    \* parse_jsonl_file: the lines the parsing pass handed to parse_json_line
    samples,       \* parse_jsonl_file: the samples array it returns
    valid,         \* analyze_run: samples[0 .. valid_count-1] after the filter loop
    summary,       \* analyze_run: the run_summary_t it fills
    result,        \* analyze_run: its return value (0, -1; 1 = not returned yet)
    summaries,     \* load_run_summaries: the array of stored summaries
    sorted_data,   \* percentile: its data argument
    p,             \* percentile: its p argument, a fraction
    presult,       \* percentile: its return value, a fraction
    os,            \* the OS the binary was built for: "linux" or "freebsd"
    host,          \* what the battery sources and the sensors of the host report
    consulted,     \* get_battery_info: the readers it has run, in order
    binfo,         \* get_battery_info: return value, *percentage, *watts, source
    metrics,       \* get_system_metrics: return value, *cpu_load, *ram_pct, *temp_c
    running,       \* batlab.c: volatile sig_atomic_t running
    log_file,      \* batlab.c: FILE *log_file, "null" or "open"
    stream,        \* records in the stdio buffer of log_file, not yet in the file
    log_sample_count,  \* cmd_log: int sample_count
    log_error_count,   \* cmd_log: int error_count
    sig_ticks,     \* ticks started when the first signal was handled, -1 before
    stderr_sig,    \* messages signal_handler printed on stderr
    clock,         \* time(NULL) of the host, in seconds
    sess,          \* the logging sessions of the host: position, run id, log file
    dirfiles,      \* the .jsonl files of the data directory: name to content
    visited,       \* load_run_summaries: the entries its second pass has read
    jsonl_count,   \* load_run_summaries: int jsonl_count, the slots allocated
    exit_status,   \* the return value of cmd_report / cmd_export (-1: running)
    run_text,      \* the run id generate_run_id built, a text
    ident,         \* parse_run_id_fallback: config, workload and os it returned
    inhibitors,    \* the suspension inhibitor processes alive on the host
    procs,         \* position of the logger and of the `batlab run` process
    tsample        \* the telemetry_sample_t handed to the fprintf of cmd_log

\* the state of get_battery_info and get_system_metrics
telemetryVars == << os, host, consulted, binfo, metrics >>

\* the state of cmd_log and signal_handler
logVars == << running, log_file, stream, log_sample_count, log_error_count, sig_ticks,
             stderr_sig >>

\* the state of the sessions that share one data directory
sessionVars == << clock, sess >>

\* the state of load_run_summaries and of the command that called it
batchVars == << dirfiles, visited, jsonl_count, exit_status >>

\* the state of the run id round trip
identVars == << run_text, ident >>

\* the state of the suspension inhibitors
suspendVars == << inhibitors, procs >>

\* the state of the later parts of the model
restVars == << batchVars, identVars, suspendVars, tsample >>

vars == << disk, appends, min_samples, pc, line_count, read_lines, samples,
           valid, summary, result, summaries, sorted_data, p, presult,
           telemetryVars, logVars, sessionVars, restVars >>

-----------------------------------------------------------------------------
(* Bounds of the model *)

\* longest log drawn exhaustively over LineAlphabet
MaxLines == 3
\* writes of the logger that reach the disk while one analysis runs
MaxAppends == 1
\* longest data array handed to percentile on its own
MaxData == 4

(* Units of the fixed-point values *)

\* "watts": %.3f
WattScale == 1000
\* "pct": %.1f
PctScale == 10

-----------------------------------------------------------------------------
(* Fractions *)

Frac(n, d) == [num |-> n, den |-> d]

FracEq(a, b) == a.den # 0 /\ b.den # 0 /\ a.num * b.den = b.num * a.den

IsNaN(a) == a.den = 0

-----------------------------------------------------------------------------
(* Log lines.  A line is the sequence of its "key": value members in the   *)
(* order they appear in the text; short = strlen(line) <= 1; eol = the line *)
(* ends with a newline (FALSE: the file ends in the middle of the line).    *)

NumField(k, n) == [k |-> k, ty |-> "num", n |-> n, s |-> ""]
StrField(k, s) == [k |-> k, ty |-> "str", n |-> 0, s |-> s]

Line(fields, eol) == [short |-> FALSE, eol |-> eol, fields |-> fields]

EmptyLine == [short |-> TRUE, eol |-> TRUE, fields |-> << >>]

\* the record cmd_log prints for a sample
LogRecord(sample) ==
    Line(<< StrField("t", sample.timestamp),
            NumField("pct", sample.percentage),
            NumField("watts", sample.watts),
            NumField("cpu_load", sample.cpu_load),
            NumField("ram_pct", sample.ram_pct),
            NumField("temp_c", sample.temp_c),
            StrField("src", sample.source) >>, TRUE)

\* the first k members of a record whose remaining bytes are not on disk yet
CutLine(line, k) ==
    IF k = 0 THEN [short |-> TRUE, eol |-> FALSE, fields |-> << >>]
    ELSE [short |-> FALSE, eol |-> FALSE, fields |-> SubSeq(line.fields, 1, k)]

Sample(pct, watts, cpu, src) ==
    [timestamp |-> "ts", percentage |-> pct, watts |-> watts, cpu_load |-> cpu,
     ram_pct |-> 40000, temp_c |-> 4500, source |-> src]

Rec(pct, watts, src) == LogRecord(Sample(pct, watts, 50, src))

-----------------------------------------------------------------------------
(* analysis.c: the JSON helpers *)

\* strstr(json, "\"key\":"): position of the first member named key, 0 if none
FindKey(fields, key) ==
    IF \E i \in DOMAIN fields : fields[i].k = key
    THEN CHOOSE i \in DOMAIN fields :
             /\ fields[i].k = key
             /\ \A j \in 1..(i - 1) : fields[j].k # key
    ELSE 0

\* strtod of the text after the key; 0.0 when the key is missing or the text
\* is no number (null, a string)
parse_json_double(line, key) ==
    LET i == FindKey(line.fields, key)
    IN  IF i = 0 THEN 0
        ELSE IF line.fields[i].ty = "num" THEN line.fields[i].n ELSE 0

\* the text between the quotes after the key; "" when the key is missing or
\* no opening quote follows it
parse_json_string(line, key) ==
    LET i == FindKey(line.fields, key)
    IN  IF i = 0 THEN ""
        ELSE IF line.fields[i].ty = "str" THEN line.fields[i].s ELSE ""

\* the sample parse_json_line fills from a line
parse_json_line(line) ==
    [timestamp  |-> parse_json_string(line, "t"),
     percentage |-> parse_json_double(line, "pct"),
     watts      |-> parse_json_double(line, "watts"),
     cpu_load   |-> parse_json_double(line, "cpu_load"),
     ram_pct    |-> parse_json_double(line, "ram_pct"),
     temp_c     |-> parse_json_double(line, "temp_c"),
     source     |-> parse_json_string(line, "src")]

\* the return value of parse_json_line for two non-NULL arguments
parse_json_line_status(line) == 0

-----------------------------------------------------------------------------
(* analysis.c: parse_jsonl_file *)

\* first pass: the lines with strlen(line) > 1
CountLines(file) == Cardinality({i \in DOMAIN file : ~file[i].short})

\* second pass: while (fgets(line) && parsed_count < line_count), the lines
\* whose parse_json_line returned 0, in file order
RECURSIVE ParseLoop(_, _, _, _)
ParseLoop(file, i, lcount, acc) ==
    IF i > Len(file) \/ ~(Len(acc) < lcount) THEN acc
    ELSE IF ~file[i].short /\ parse_json_line_status(file[i]) = 0
         THEN ParseLoop(file, i + 1, lcount, Append(acc, file[i]))
         ELSE ParseLoop(file, i + 1, lcount, acc)

ParsedSamples(lines) == [i \in DOMAIN lines |-> parse_json_line(lines[i])]

-----------------------------------------------------------------------------
(* analysis.c: percentile; p is a fraction, so is the result *)

PercentileNoInterpolation(data, count, q) ==
    IF count = 0 THEN Frac(0, 1)
    ELSE Frac(data[((q.num * (count - 1)) \div q.den) + 1], 1)

percentile(data, count, q) ==
    IF count = 0 THEN Frac(0, 1)
    ELSE IF count = 1 THEN Frac(data[1], 1)
    ELSE LET index_num   == q.num * (count - 1)       \* index = index_num / q.den
             lower_index == index_num \div q.den
             upper_index == (index_num + q.den - 1) \div q.den
         IN  IF lower_index = upper_index
             THEN Frac(data[lower_index + 1], 1)
             ELSE LET weight_num == index_num - lower_index * q.den
                  IN  Frac(data[lower_index + 1] * (q.den - weight_num)
                             + data[upper_index + 1] * weight_num, q.den)

-----------------------------------------------------------------------------
(* analysis.c: analyze_run *)

SampleValidInclusive(s) ==
    /\ s.percentage >= 0 /\ s.percentage <= 100 * PctScale
    /\ s.watts >= 0 /\ s.watts <= 100 * WattScale

\* the condition of the filter loop
IsValidSample(s) ==
    /\ s.percentage >= 0 /\ s.percentage <= 100 * PctScale
    /\ s.watts >= 0 /\ s.watts < 100 * WattScale

\* the filter loop: the valid samples are moved to the front of the array
RECURSIVE FilterLoop(_, _, _)
FilterLoop(arr, i, valid_count) ==
    IF i > Len(arr) THEN [arr |-> arr, valid_count |-> valid_count]
    ELSE IF IsValidSample(arr[i])
         THEN FilterLoop(IF valid_count + 1 # i
                         THEN [arr EXCEPT ![valid_count + 1] = arr[i]]
                         ELSE arr,
                         i + 1, valid_count + 1)
         ELSE FilterLoop(arr, i + 1, valid_count)

SamplesTotalOffByOne(smpls) == Len(smpls) - 1

\* summary->samples_total = sample_count
SamplesTotal(smpls) == Len(smpls)

\* if (sample_count < min_samples) return -1
TooFewSamples(sample_count, min) == sample_count < min

TooFewValidNever(valid_count, min) == FALSE

\* if (valid_count < min_samples) return -1
TooFewValid(valid_count, min) == valid_count < min

\* calculate_duration
calculate_duration(smpls, count) == IF count < 2 THEN 0 ELSE count * 60

RECURSIVE SumOf(_, _, _)
SumOf(arr, n, f) == IF n = 0 THEN 0 ELSE SumOf(arr, n - 1, f) + arr[n][f]

\* qsort(watts_values, valid_count, ..., compare_doubles)
SortedWatts(arr, n) == SortSeq([i \in 1..n |-> arr[i].watts], LAMBDA a, b : a < b)

PowerStatsOverAll(arr, n) ==
    LET m == Len(arr)
    IN  [avg_watts    |-> Frac(SumOf(arr, m, "watts"), m),
         avg_cpu_load |-> Frac(SumOf(arr, m, "cpu_load"), m),
         avg_ram_pct  |-> Frac(SumOf(arr, m, "ram_pct"), m),
         avg_temp_c   |-> Frac(SumOf(arr, m, "temp_c"), m),
         median_watts |-> percentile(SortedWatts(arr, m), m, Frac(1, 2)),
         p95_watts    |-> percentile(SortedWatts(arr, m), m, Frac(19, 20))]

\* the sums over samples[0 .. valid_count-1], the four divisions and the two
\* percentiles of the sorted watts values
PowerStats(arr, n) ==
    [avg_watts    |-> Frac(SumOf(arr, n, "watts"), n),
     avg_cpu_load |-> Frac(SumOf(arr, n, "cpu_load"), n),
     avg_ram_pct  |-> Frac(SumOf(arr, n, "ram_pct"), n),
     avg_temp_c   |-> Frac(SumOf(arr, n, "temp_c"), n),
     median_watts |-> percentile(SortedWatts(arr, n), n, Frac(1, 2)),
     p95_watts    |-> percentile(SortedWatts(arr, n), n, Frac(19, 20))]

BatteryDropUnclamped(arr, n) ==
    IF n >= 2
    THEN [start_pct |-> arr[1].percentage, end_pct |-> arr[n].percentage,
          pct_drop |-> arr[1].percentage - arr[n].percentage]
    ELSE [start_pct |-> 0, end_pct |-> 0, pct_drop |-> 0]

\* start_pct, end_pct and pct_drop; all three stay 0 below two valid samples
BatteryDrop(arr, n) ==
    IF n >= 2
    THEN [start_pct |-> arr[1].percentage, end_pct |-> arr[n].percentage,
          pct_drop |-> IF arr[1].percentage > arr[n].percentage
                       THEN arr[1].percentage - arr[n].percentage ELSE 0]
    ELSE [start_pct |-> 0, end_pct |-> 0, pct_drop |-> 0]

\* memset(summary, 0, sizeof(run_summary_t)): the numeric fields of
\* run_summary_t (the identity strings run_id, config, os, workload are not
\* part of this model)
ZeroSummary ==
    [duration_s |-> 0, samples_total |-> 0, samples_valid |-> 0,
     avg_watts |-> Frac(0, 1), median_watts |-> Frac(0, 1), p95_watts |-> Frac(0, 1),
     avg_cpu_load |-> Frac(0, 1), avg_ram_pct |-> Frac(0, 1), avg_temp_c |-> Frac(0, 1),
     pct_drop |-> 0, start_pct |-> 0, end_pct |-> 0]

\* analyze_run after parse_jsonl_file succeeded; malloc_ok = the malloc of
\* the watts_values array returned a non-NULL pointer
AnalyzeSamples(smpls, min, malloc_ok) ==
    IF TooFewSamples(Len(smpls), min)
    THEN [result |-> -1, summary |-> ZeroSummary, valid |-> << >>]
    ELSE LET f  == FilterLoop(smpls, 1, 0)
             n  == f.valid_count
             s1 == [ZeroSummary EXCEPT !.samples_total = SamplesTotal(smpls)]
             s2 == [s1 EXCEPT !.samples_valid = n,
                              !.duration_s = calculate_duration(f.arr, n)]
         IN  IF TooFewValid(n, min)
             THEN [result |-> -1, summary |-> s1, valid |-> SubSeq(f.arr, 1, n)]
             ELSE IF ~malloc_ok
             THEN [result |-> -1, summary |-> s2, valid |-> SubSeq(f.arr, 1, n)]
             ELSE LET st == PowerStats(f.arr, n)
                      bd == BatteryDrop(f.arr, n)
                  IN  [result  |-> 0,
                       valid   |-> SubSeq(f.arr, 1, n),
                       summary |-> [s2 EXCEPT
                           !.avg_watts = st.avg_watts,
                           !.avg_cpu_load = st.avg_cpu_load,
                           !.avg_ram_pct = st.avg_ram_pct,
                           !.avg_temp_c = st.avg_temp_c,
                           !.median_watts = st.median_watts,
                           !.p95_watts = st.p95_watts,
                           !.start_pct = bd.start_pct,
                           !.end_pct = bd.end_pct,
                           !.pct_drop = bd.pct_drop]]

-----------------------------------------------------------------------------
(* The inputs *)

GoodA    == Rec(90 * PctScale, 5 * WattScale, "upower")
GoodB    == Rec(80 * PctScale, 6 * WattScale, "sysfs")
TooHigh  == Rec(85 * PctScale, 200 * WattScale, "upower")
Negative == Rec(85 * PctScale, -5 * WattScale, "sysfs")
AtLimit  == Rec(90 * PctScale, 100 * WattScale, "sysfs")
InLimit  == Rec(100 * PctScale, 100 * WattScale - 1, "upower")
PctOver  == Rec(100 * PctScale + 1, 5 * WattScale, "upower")
PctBelow == Rec(-1, 5 * WattScale, "sysfs")
\* a line of text that holds none of the keys
Garbage  == Line(<< >>, TRUE)
\* a record cut off before its watts member
CutBeforeWatts == CutLine(GoodB, 2)

LineAlphabet == { GoodA, InLimit, TooHigh, Garbage, EmptyLine }

\* what the end of a file that is being written can look like
PartialLines == { CutLine(GoodB, 0), CutBeforeWatts }

RECURSIVE SeqsUpTo(_, _)
SeqsUpTo(S, n) ==
    IF n = 0 THEN { << >> }
    ELSE LET shorter == SeqsUpTo(S, n - 1)
         IN  shorter \cup { Append(q, x) : q \in { r \in shorter : Len(r) = n - 1 }, x \in S }

\* the records below and just outside the two ranges, alone and next to a
\* valid record
BoundaryLogs == SeqsUpTo({ GoodA, Negative, AtLimit, PctOver, PctBelow }, 2)

Repeat(x, n) == [i \in 1..n |-> x]

\* the runs of the end-to-end scenarios
TenSampleRun == Repeat(GoodA, 9) \o << TooHigh >>
DropRun ==
    << Rec(90 * PctScale, 6 * WattScale, "upower"),
       Rec(85 * PctScale, 6 * WattScale, "upower"),
       Rec(80 * PctScale, 6 * WattScale, "upower") >>
FourOfTenRun == Repeat(TooHigh, 3) \o Repeat(GoodA, 4) \o Repeat(Negative, 3)

ScenarioLogs == { TenSampleRun, DropRun, FourOfTenRun }

Logs ==
    LET bodies == SeqsUpTo(LineAlphabet, MaxLines)
    IN  bodies
        \cup { Append(b, c) : b \in { r \in bodies : Len(r) < MaxLines }, c \in PartialLines }
        \cup BoundaryLogs
        \cup ScenarioLogs

\* int min_samples = 10 (report), 1 (export), atoi of --min-samples
MinSamplesValues == { -1, 0, 1, 2, 10 }

-----------------------------------------------------------------------------
(* The parts of the state a specification does not exercise *)

\* no get_battery_info or get_system_metrics call in progress
TelemetryIdle ==
    /\ os = "linux"
    /\ host = << >>
    /\ consulted = << >>
    /\ binfo = << >>
    /\ metrics = << >>

\* no cmd_log running
LogIdle ==
    /\ running = 1
    /\ log_file = "null"
    /\ stream = << >>
    /\ log_sample_count = 0
    /\ log_error_count = 0
    /\ sig_ticks = -1
    /\ stderr_sig = 0

\* no logging session started
SessionsIdle ==
    /\ clock = 0
    /\ sess = << >>

\* no load_run_summaries call
BatchIdle ==
    /\ dirfiles = << >>
    /\ visited = { }
    /\ jsonl_count = 0
    /\ exit_status = -1

\* no run id built
IdentIdle ==
    /\ run_text = << >>
    /\ ident = << >>

\* no inhibitor and no process
SuspendIdle ==
    /\ inhibitors = { }
    /\ procs = << >>

\* no sample being printed
RoundIdle == tsample = << >>

RestIdle == BatchIdle /\ IdentIdle /\ SuspendIdle /\ RoundIdle

\* no analysis and no percentile call in progress
AnalysisIdle ==
    /\ min_samples = 0
    /\ appends = 0
    /\ line_count = 0
    /\ read_lines = << >>
    /\ samples = << >>
    /\ valid = << >>
    /\ summary = ZeroSummary
    /\ result = 1
    /\ summaries = << >>
    /\ sorted_data = << >>
    /\ p = Frac(0, 1)
    /\ presult = Frac(0, 1)

-----------------------------------------------------------------------------
(* The analysis of one log, while the logger may still be writing it *)

Init ==
    /\ disk \in Logs
    /\ min_samples \in MinSamplesValues
    /\ appends = 0
    /\ pc = "start"
    /\ line_count = 0
    /\ read_lines = << >>
    /\ samples = << >>
    /\ valid = << >>
    /\ summary = ZeroSummary
    /\ result = 1
    /\ summaries = << >>
    /\ sorted_data = << >>
    /\ p = Frac(0, 1)
    /\ presult = Frac(0, 1)
    /\ TelemetryIdle /\ LogIdle /\ SessionsIdle /\ RestIdle

\* cmd_log: bytes of the stream reach the file (a flush of the stdio buffer):
\* the end of a line that was cut, or a further line, whole or cut.  Writes
\* are followed while parse_jsonl_file has the file open; it is the only
\* reader, so a later write changes nothing the analysis sees.
LoggerWrite ==
    /\ pc \in {"start", "pass2"}
    /\ appends < MaxAppends
    /\ appends' = appends + 1
    /\ IF disk # << >> /\ ~disk[Len(disk)].eol
       THEN disk' = [disk EXCEPT ![Len(disk)] = GoodB]
       ELSE \E l \in {GoodB, CutBeforeWatts} : disk' = Append(disk, l)
    /\ UNCHANGED << min_samples, pc, line_count, read_lines, samples, valid,
                    summary, result, summaries, sorted_data, p, presult,
                    telemetryVars, logVars, sessionVars,
                    restVars >>

\* parse_jsonl_file, first pass
CountPass ==
    /\ pc = "start"
    /\ line_count' = CountLines(disk)
    /\ IF line_count' = 0
       THEN result' = -1 /\ pc' = "store"
       ELSE result' = result /\ pc' = "pass2"
    /\ UNCHANGED << disk, appends, min_samples, read_lines, samples, valid,
                    summary, summaries, sorted_data, p, presult,
                    telemetryVars, logVars, sessionVars,
                    restVars >>

\* parse_jsonl_file, second pass, and its return
ParsePass ==
    /\ pc = "pass2"
    /\ read_lines' = ParseLoop(disk, 1, line_count, << >>)
    /\ samples' = ParsedSamples(read_lines')
    /\ IF Len(samples') > 0
       THEN result' = result /\ pc' = "analyze"
       ELSE result' = -1 /\ pc' = "store"
    /\ UNCHANGED << disk, appends, min_samples, line_count, valid, summary,
                    summaries, sorted_data, p, presult,
                    telemetryVars, logVars, sessionVars,
                    restVars >>

\* analyze_run from the sample_count check to its return.  malloc(0) may
\* return NULL or a pointer: both are outcomes when valid_count is 0.
Analyze ==
    /\ pc = "analyze"
    /\ \E malloc_ok \in IF FilterLoop(samples, 1, 0).valid_count = 0
                        THEN BOOLEAN ELSE {TRUE} :
         LET r == AnalyzeSamples(samples, min_samples, malloc_ok)
         IN  /\ result' = r.result
             /\ summary' = r.summary
             /\ valid' = r.valid
    /\ pc' = "store"
    /\ UNCHANGED << disk, appends, min_samples, line_count, read_lines, samples,
                    summaries, sorted_data, p, presult,
                    telemetryVars, logVars, sessionVars,
                    restVars >>

\* load_run_summaries: if (analyze_run(...) == 0) (*summaries)[valid_runs++] = summary
Store ==
    /\ pc = "store"
    /\ summaries' = IF result = 0 THEN Append(summaries, summary) ELSE summaries
    /\ pc' = "done"
    /\ UNCHANGED << disk, appends, min_samples, line_count, read_lines, samples,
                    valid, summary, result, sorted_data, p, presult,
                    telemetryVars, logVars, sessionVars,
                    restVars >>

Next == LoggerWrite \/ CountPass \/ ParsePass \/ Analyze \/ Store

Spec == Init /\ [][Next]_vars

-----------------------------------------------------------------------------
(* percentile called on its own *)

DataValues == 1..4

\* the ascending arrays of at most n values
SortedArrays(n) ==
    { d \in SeqsUpTo(DataValues, n) : \A i \in 1..(Len(d) - 1) : d[i] <= d[i + 1] }

\* p = 0, 0.25, 0.5, 0.95, 1
PValues == { Frac(0, 1), Frac(1, 4), Frac(1, 2), Frac(19, 20), Frac(1, 1) }

InitPercentile ==
    /\ sorted_data \in SortedArrays(MaxData)
    /\ p \in PValues
    /\ presult = Frac(0, 1)
    /\ pc = "pcall"
    /\ disk = << >>
    /\ min_samples = 0
    /\ appends = 0
    /\ line_count = 0
    /\ read_lines = << >>
    /\ samples = << >>
    /\ valid = << >>
    /\ summary = ZeroSummary
    /\ result = 1
    /\ summaries = << >>
    /\ TelemetryIdle /\ LogIdle /\ SessionsIdle /\ RestIdle

PercentileCall ==
    /\ pc = "pcall"
    /\ presult' = percentile(sorted_data, Len(sorted_data), p)
    /\ pc' = "pdone"
    /\ UNCHANGED << disk, appends, min_samples, line_count, read_lines, samples,
                    valid, summary, result, summaries, sorted_data, p,
                    telemetryVars, logVars, sessionVars,
                    restVars >>

NextPercentile == PercentileCall

SpecPercentile == InitPercentile /\ [][NextPercentile]_vars

-----------------------------------------------------------------------------
(* telemetry.c: the battery readers.  A text a reader searches with strstr  *)
(* is a sequence of characters; a number it parses is the integer the       *)
(* source prints, in the unit of the source; -1 is the value the code gives *)
(* its local before the source is read, and stands for "no such line" or    *)
(* "file not readable".  upower prints decimals ("80.3%", "6.123 W"): its   *)
(* two numbers are kept in 1/PctScale % and 1/WattScale W.                  *)

\* strstr(hay, needle) != NULL
strstr(hay, needle) ==
    \E i \in 0..(Len(hay) - Len(needle)) :
        \A j \in 1..Len(needle) : hay[i + j] = needle[j]

\* the needles of the readers
NeedleCharging == << "c", "h", "a", "r", "g", "i", "n", "g" >>
NeedleCapCharging == << "C", "h", "a", "r", "g", "i", "n", "g" >>
NeedleFull == << "F", "u", "l", "l" >>

\* the state texts of upower and acpiconf, and the status texts of sysfs
TextCharging == NeedleCharging
TextDischarging == << "d", "i", "s" >> \o NeedleCharging
TextFullyCharged == << "f", "u", "l", "l", "y", "-", "c", "h", "a", "r", "g", "e", "d" >>
TextHigh == << "h", "i", "g", "h" >>
StatusCharging == NeedleCapCharging
StatusDischarging == << "D", "i", "s", "c", "h", "a", "r", "g", "i", "n", "g" >>
StatusFull == NeedleFull
\* no state line in the output, or read_file_line failed
NoText == << >>

\* parse_double(rate_str) / 1000.0: milliwatts to watts
MilliToWatts(mw) == (mw * WattScale) \div 1000
\* parse_double(buffer) / 1000000.0: microwatts to watts
MicroToWatts(uw) == uw \div (1000000 \div WattScale)
\* current * voltage, each divided by 1000000.0 (microamperes, microvolts)
CurrentVoltageWatts(ua, uv) ==
    MicroToWatts((ua \div 1000) * (uv \div 1000))

\* the result of a reader: it returned (rc 0 or -1) or fell through to the
\* code after it (rc 1)
Reading(rc, pct, watts, source) ==
    [rc |-> rc, percentage |-> pct, watts |-> watts, source |-> source]
\* the outputs of a call that returned -1 are whatever the caller had
Failure(source) == Reading(-1, -1, -1, source)
FallThrough(source) == Reading(1, -1, -1, source)

\* get_battery_info_linux, the upower block
upower_reader(u) ==
    IF ~u.ok THEN FallThrough("")
    ELSE LET is_charging == u.state # NoText /\ strstr(u.state, NeedleCharging)
         IN  IF is_charging THEN Failure("upower")
             ELSE IF u.pct >= 0
                  THEN Reading(0, u.pct, IF u.rate > 0 THEN u.rate ELSE 0, "upower")
                  ELSE FallThrough("upower")

\* the status test of the sysfs block: BAT0/status, else BAT1/status
SysfsCharging(b0, b1) ==
    LET buffer == IF b0.status # NoText THEN b0.status ELSE b1.status
    IN  buffer # NoText /\ (strstr(buffer, NeedleCapCharging) \/ strstr(buffer, NeedleFull))

\* power_now, else current_now * voltage_now, of one battery node
NodePower(b, power_now) ==
    IF b.power_now >= 0 THEN MicroToWatts(b.power_now)
    ELSE IF b.current_now >= 0 /\ b.voltage_now >= 0
         THEN CurrentVoltageWatts(b.current_now, b.voltage_now)
         ELSE power_now

\* get_battery_info_linux, the sysfs block
sysfs_reader(b0, b1, source) ==
    IF SysfsCharging(b0, b1) THEN Failure(source)
    ELSE LET cap0 == b0.capacity
             pow0 == NodePower(b0, -1)
             capacity == IF cap0 < 0 /\ b1.capacity >= 0 THEN b1.capacity ELSE cap0
             power_now == IF pow0 < 0 THEN NodePower(b1, pow0) ELSE pow0
         IN  IF capacity >= 0
             THEN Reading(0, capacity * PctScale,
                          IF power_now > 0 THEN power_now ELSE 0, "sysfs")
             ELSE Failure(source)

\* get_battery_info_freebsd, the acpiconf block
acpiconf_reader(a) ==
    IF ~a.ok THEN FallThrough("")
    ELSE IF a.state # NoText /\ strstr(a.state, NeedleCharging) THEN Failure("acpiconf")
    ELSE LET rate == IF a.rate >= 0 THEN MilliToWatts(a.rate) ELSE -1
         IN  IF a.pct >= 0
             THEN Reading(0, a.pct * PctScale, IF rate > 0 THEN rate ELSE 0, "acpiconf")
             ELSE FallThrough("acpiconf")

\* get_battery_info_freebsd, the sysctl block
sysctl_reader(c, source) ==
    IF c.life >= 0
    THEN Reading(0, c.life * PctScale,
                 IF c.rate >= 0 THEN MilliToWatts(c.rate) ELSE 0, "sysctl")
    ELSE Failure(source)

\* the fallback source ahead of the primary one
ReaderOrderReversed(o) ==
    IF o = "linux" THEN << "sysfs", "upower" >> ELSE << "sysctl", "acpiconf" >>

\* the readers of an OS in the order get_battery_info_<os> runs them
ReaderOrder(o) ==
    IF o = "linux" THEN << "upower", "sysfs" >> ELSE << "acpiconf", "sysctl" >>

\* one reader run on the host, after the readers before it left `source`
RunReader(name, h, source) ==
    CASE name = "upower"   -> upower_reader(h.upower)
      [] name = "sysfs"    -> sysfs_reader(h.bat0, h.bat1, source)
      [] name = "acpiconf" -> acpiconf_reader(h.acpiconf)
      [] name = "sysctl"   -> sysctl_reader(h.sysctl, source)

\* get_battery_info: the readers in order until one returns
RECURSIVE BatteryInfoFrom(_, _, _, _)
BatteryInfoFrom(o, h, i, source) ==
    LET r == RunReader(ReaderOrder(o)[i], h, source)
    IN  IF r.rc = 1 THEN BatteryInfoFrom(o, h, i + 1, r.source) ELSE r

get_battery_info(o, h) == BatteryInfoFrom(o, h, 1, "")

-----------------------------------------------------------------------------
(* telemetry.c: the system metrics.  cpu_load is kept in 1/100, ram_pct in  *)
(* 1/1000 %, temp_c in 1/100 degree, as cmd_log prints them.                *)

\* what an unassigned double of the caller's sample can hold
StackGarbage == { 0, 4500, -12345 }

\* *cpu_load: getloadavg, else 0.0
CpuLoad(sn) == IF sn.loadavg # -1 THEN sn.loadavg ELSE 0

\* (double)used / total * 100.0
RamPct(used, total) == (used * 100 * 1000) \div total

\* *ram_pct of get_system_metrics_linux, from /proc/meminfo
RamPctLinux(m) ==
    IF m.open /\ m.mem_total > 0
    THEN IF m.mem_available > 0
         THEN RamPct(m.mem_total - m.mem_available, m.mem_total)
         ELSE RamPct(m.mem_total - m.mem_free - m.buffers - m.cached, m.mem_total)
    ELSE 0

\* temp_millic / 1000.0
MilliToDegrees(t) == t \div 10

\* *temp_c of get_system_metrics_linux.  With thermal_zone0 and every hwmon
\* node unreadable, nothing is stored before *temp_c is compared with 0.0,
\* and nothing after it unless it was 0.0 and coretemp is readable: `garbage`
\* is what the caller's variable held.
TempLinux(sn, garbage) ==
    IF sn.zone0 >= 0 THEN MilliToDegrees(sn.zone0)
    ELSE LET t == IF sn.hwmon >= 0 THEN MilliToDegrees(sn.hwmon) ELSE garbage
         IN  IF t = 0 /\ sn.coretemp >= 0 THEN MilliToDegrees(sn.coretemp) ELSE t

get_system_metrics_linux(sn, garbage) ==
    [rc |-> 0, cpu_load |-> CpuLoad(sn), ram_pct |-> RamPctLinux(sn.meminfo),
     temp_c |-> TempLinux(sn, garbage)]

\* *ram_pct of get_system_metrics_freebsd, from the vm.stats.vm counters
RamPctFreeBSD(v) ==
    IF v.physmem > 0 /\ v.page_size > 0
    THEN LET total_pages == v.physmem \div v.page_size
         IN  RamPct(total_pages - (v.free + v.inactive + v.cache), total_pages)
    ELSE 0

\* *temp_c of get_system_metrics_freebsd: dev.cpu.0.temperature ("45.0C"),
\* else hw.acpi.thermal.tz0.temperature (tenths of a kelvin), else 0.0
TempFreeBSD(sn) ==
    IF sn.cputemp >= 0 THEN sn.cputemp * 10
    ELSE IF sn.tz0 >= 0 THEN sn.tz0 * 10 - 27315
    ELSE 0

get_system_metrics_freebsd(sn) ==
    [rc |-> 0, cpu_load |-> CpuLoad(sn), ram_pct |-> RamPctFreeBSD(sn.vm),
     temp_c |-> TempFreeBSD(sn)]

get_system_metrics(o, sn, garbage) ==
    IF o = "linux" THEN get_system_metrics_linux(sn, garbage)
    ELSE get_system_metrics_freebsd(sn)

\* collect_telemetry: the sample of a tick stamped `now`, or -1 without one
collect_telemetry(o, h, now, garbage) ==
    LET b == get_battery_info(o, h)
        m == get_system_metrics(o, h.sensors, garbage)
    IN  IF b.rc # 0 THEN [rc |-> -1, sample |-> << >>]
        ELSE [rc |-> 0,
              sample |-> [timestamp |-> now, percentage |-> b.percentage,
                          watts |-> b.watts, cpu_load |-> m.cpu_load,
                          ram_pct |-> m.ram_pct, temp_c |-> m.temp_c,
                          source |-> b.source]]

-----------------------------------------------------------------------------
(* The hosts.  A host has one battery state; each of its sources that       *)
(* reports a state reports that one.                                        *)

\* upower -i: not runnable, or its state, percentage and energy-rate lines
UpowerOutputs(charging) ==
    { [ok |-> FALSE, state |-> NoText, pct |-> -1, rate |-> -1] } \cup
    { [ok |-> TRUE, state |-> st, pct |-> pct, rate |-> rate] :
        st \in (IF charging THEN { NoText, TextCharging }
                            ELSE { NoText, TextDischarging, TextFullyCharged }),
        pct \in { -1, 803 }, rate \in { -1, 0, 6123 } }

\* the power files of a node: none, power_now, current_now and voltage_now,
\* current_now alone, power_now reading 0
PowerFiles ==
    { << -1, -1, -1 >>, << 6000000, -1, -1 >>, << -1, 500000, 12000000 >>,
      << -1, 500000, -1 >>, << 0, -1, -1 >> }

\* /sys/class/power_supply/BAT<n>
AbsentNode ==
    [status |-> NoText, capacity |-> -1, power_now |-> -1, current_now |-> -1,
     voltage_now |-> -1]

BatteryNodes(charging) ==
    { [status |-> st, capacity |-> cap, power_now |-> pw[1],
       current_now |-> pw[2], voltage_now |-> pw[3]] :
        st \in (IF charging THEN { NoText, StatusCharging }
                            ELSE { NoText, StatusDischarging, StatusFull }),
        cap \in { -1, 80 }, pw \in PowerFiles }

\* a second battery: none, or one with every file
SecondNodes(charging) ==
    { AbsentNode,
      [status |-> IF charging THEN StatusCharging ELSE StatusDischarging,
       capacity |-> 70, power_now |-> 7000000, current_now |-> -1,
       voltage_now |-> -1] }

\* acpiconf -i 0: not runnable, or its State, Remaining capacity and
\* Present rate (mW) lines
AcpiconfOutputs(charging) ==
    { [ok |-> FALSE, state |-> NoText, pct |-> -1, rate |-> -1] } \cup
    { [ok |-> TRUE, state |-> st, pct |-> pct, rate |-> rate] :
        st \in (IF charging THEN { NoText, TextCharging }
                            ELSE { NoText, TextDischarging, TextHigh }),
        pct \in { -1, 80 }, rate \in { -1, 0, 6000 } }

\* hw.acpi.battery.life, .rate and .state (1 discharging, 2 charging)
SysctlOutputs(charging) ==
    { [life |-> life, rate |-> rate, state |-> IF charging THEN 2 ELSE 1] :
        life \in { -1, 80 }, rate \in { -1, 0, 6000 } }

\* sensors of a Linux host that all answer
LinuxSensors ==
    [loadavg |-> 50,
     meminfo |-> [open |-> TRUE, mem_total |-> 8000, mem_available |-> 4800,
                  mem_free |-> 1000, buffers |-> 200, cached |-> 2000],
     zone0 |-> 45000, hwmon |-> 46000, coretemp |-> 47000]

\* the sensors of Linux hosts, answering or not
LinuxSensorSets ==
    { [loadavg |-> la,
       meminfo |-> [open |-> op, mem_total |-> mt, mem_available |-> ma,
                    mem_free |-> 1000, buffers |-> 200, cached |-> 2000],
       zone0 |-> z, hwmon |-> hw, coretemp |-> ct] :
        la \in { -1, 50 }, op \in BOOLEAN, mt \in { 0, 8000 }, ma \in { 0, 4800 },
        z \in { -1, 45000 }, hw \in { -1, 0, 46000 }, ct \in { -1, 47000 } }

FreeBSDSensors ==
    [loadavg |-> 50,
     vm |-> [page_size |-> 4, physmem |-> 8000, free |-> 300, inactive |-> 400,
             cache |-> 100],
     cputemp |-> 450, tz0 |-> 3182]

FreeBSDSensorSets ==
    { [loadavg |-> la,
       vm |-> [page_size |-> ps, physmem |-> pm, free |-> 300, inactive |-> 400,
               cache |-> 100],
       cputemp |-> ct, tz0 |-> tz] :
        la \in { -1, 50 }, ps \in { 0, 4 }, pm \in { 0, 8000 },
        ct \in { -1, 450 }, tz \in { -1, 3182 } }

\* a Linux host without upower whose battery discharges
GoodLinuxHost(sn) ==
    [charging |-> FALSE,
     upower |-> [ok |-> FALSE, state |-> NoText, pct |-> -1, rate |-> -1],
     bat0 |-> [status |-> StatusDischarging, capacity |-> 80,
               power_now |-> 6000000, current_now |-> -1, voltage_now |-> -1],
     bat1 |-> AbsentNode, sensors |-> sn]

\* a FreeBSD host whose battery discharges, acpiconf reporting no state line
GoodFreeBSDHost(sn) ==
    [charging |-> FALSE,
     acpiconf |-> [ok |-> TRUE, state |-> NoText, pct |-> 80, rate |-> 6000],
     sysctl |-> [life |-> 80, rate |-> 6000, state |-> 1], sensors |-> sn]

\* the Linux hosts: every battery source answering or not, sensors answering
LinuxBatteryHosts ==
    UNION { { [charging |-> c, upower |-> u, bat0 |-> b0, bat1 |-> b1,
               sensors |-> LinuxSensors] :
                u \in UpowerOutputs(c), b0 \in BatteryNodes(c),
                b1 \in SecondNodes(c) } : c \in BOOLEAN }

FreeBSDBatteryHosts ==
    UNION { { [charging |-> c, acpiconf |-> a, sysctl |-> sc,
               sensors |-> FreeBSDSensors] :
                a \in AcpiconfOutputs(c), sc \in SysctlOutputs(c) } : c \in BOOLEAN }

\* a percentage above 100, as a source shows when the battery holds more
\* than the full capacity it last recorded
Overfull == 104

\* Linux hosts whose capacity file, or whose upower, shows such a percentage
OverfullLinuxHosts ==
    { [GoodLinuxHost(LinuxSensors) EXCEPT !.bat0.capacity = Overfull],
      [GoodLinuxHost(LinuxSensors) EXCEPT
          !.upower = [ok |-> TRUE, state |-> NoText, pct |-> Overfull * PctScale,
                      rate |-> 6123]] }

\* FreeBSD hosts whose acpiconf, or whose sysctl, shows such a percentage
OverfullFreeBSDHosts ==
    { [GoodFreeBSDHost(FreeBSDSensors) EXCEPT !.acpiconf.pct = Overfull],
      [GoodFreeBSDHost(FreeBSDSensors) EXCEPT !.acpiconf.ok = FALSE,
                                               !.sysctl.life = Overfull] }

\* the hosts of an OS: the battery sources vary, or the sensors do
Hosts(o) ==
    IF o = "linux"
    THEN LinuxBatteryHosts \cup { GoodLinuxHost(sn) : sn \in LinuxSensorSets }
         \cup OverfullLinuxHosts
    ELSE FreeBSDBatteryHosts \cup { GoodFreeBSDHost(sn) : sn \in FreeBSDSensorSets }
         \cup OverfullFreeBSDHosts

-----------------------------------------------------------------------------
(* One collect_telemetry call, reader by reader *)

InitTelemetry ==
    /\ os \in { "linux", "freebsd" }
    /\ host \in Hosts(os)
    /\ consulted = << >>
    /\ binfo = FallThrough("")
    /\ metrics = << >>
    /\ pc = "battery"
    /\ disk = << >>
    /\ AnalysisIdle /\ LogIdle /\ SessionsIdle /\ RestIdle

\* get_battery_info_<os>: the next block of the function runs its source
ConsultReader ==
    /\ pc = "battery"
    /\ LET name == ReaderOrder(os)[Len(consulted) + 1]
           r == RunReader(name, host, binfo.source)
       IN  /\ consulted' = Append(consulted, name)
           /\ binfo' = r
           /\ pc' = IF r.rc = 1 THEN "battery"
                    ELSE IF r.rc = 0 THEN "metrics" ELSE "failed"
    /\ UNCHANGED << disk, appends, min_samples, line_count, read_lines, samples,
                    valid, summary, result, summaries, sorted_data, p, presult,
                    os, host, metrics, logVars, sessionVars,
                    restVars >>

\* collect_telemetry after get_battery_info returned 0: get_system_metrics
SystemMetrics ==
    /\ pc = "metrics"
    /\ \E garbage \in StackGarbage :
         metrics' = get_system_metrics(os, host.sensors, garbage)
    /\ pc' = "collected"
    /\ UNCHANGED << disk, appends, min_samples, line_count, read_lines, samples,
                    valid, summary, result, summaries, sorted_data, p, presult,
                    os, host, consulted, binfo, logVars, sessionVars,
                    restVars >>

NextTelemetry == ConsultReader \/ SystemMetrics

SpecTelemetry == InitTelemetry /\ [][NextTelemetry]_vars

-----------------------------------------------------------------------------
(* Vocabulary of the properties *)

Finished == pc = "done"

\* a percentage in [0, 100] and a watts value in [0, 100), in fixed point
InRange(s) ==
    /\ s.percentage \in 0..(100 * PctScale)
    /\ s.watts \in 0..(100 * WattScale - 1)

ValidIndexes == { i \in DOMAIN samples : InRange(samples[i]) }

RECURSIVE WattsTotal(_)
WattsTotal(q) == IF q = << >> THEN 0 ELSE Head(q).watts + WattsTotal(Tail(q))

\* r is the value of the ascending data at index q * (n - 1), linearly
\* interpolated between the two order statistics around that index
IsInterpolation(data, q, r) ==
    LET n == Len(data)
    IN  \E k \in 1..n :
          /\ (k - 1) * q.den <= q.num * (n - 1)
          /\ q.num * (n - 1) <= k * q.den
          /\ LET above == IF k < n THEN data[k + 1] ELSE data[k]
                 part  == q.num * (n - 1) - (k - 1) * q.den
             IN  FracEq(r, Frac(data[k] * q.den + part * (above - data[k]), q.den))

AscendingWatts(q) == SortSeq([i \in DOMAIN q |-> q[i].watts], LAMBDA a, b : a < b)

\* the line holds no pct member or no watts member
Malformed(line) == FindKey(line.fields, "pct") = 0 \/ FindKey(line.fields, "watts") = 0

-----------------------------------------------------------------------------
(* Properties *)

\* C1: in every summary analyze_run fills, returned or stored by
\* load_run_summaries, samples_valid is at most samples_total.
C1_ValidAtMostTotal ==
    /\ summary.samples_valid <= summary.samples_total
    /\ \A i \in DOMAIN summaries :
           summaries[i].samples_valid <= summaries[i].samples_total

C1_Witness ==
    /\ pc = "done" /\ result = 0
    /\ summary.samples_valid > 0
    /\ summary.samples_valid < summary.samples_total

\* C2: once the filter loop has run, the valid samples are exactly the parsed
\* samples with a percentage in [0,100] and watts in [0,100), in file order;
\* none of them has watts -5 or 200, whatever its source tag.
C2_ValidExactlyInRange ==
    (Finished /\ summary.samples_total > 0) =>
        /\ valid = SelectSeq(samples, InRange)
        /\ \A i \in DOMAIN valid :
               valid[i].watts \notin { -5 * WattScale, 200 * WattScale }
        /\ result = 0 => summary.samples_valid = Cardinality(ValidIndexes)

C2_Witness ==
    /\ pc = "done" /\ result = 0 /\ summary.samples_valid >= 1
    /\ \E i \in DOMAIN samples :
           samples[i].watts = 200 * WattScale /\ samples[i].source = "upower"
    /\ \E i \in DOMAIN samples :
           samples[i].watts = -5 * WattScale /\ samples[i].source = "sysfs"

\* C3: the mean, the median and the 95th percentile of the watts in a
\* summary are those of the valid samples of the run; the ten-sample run with
\* watts 5 (nine times) and 200 and min_samples <= 9 is summarized with
\* avg_watts = 5.0, samples_valid = 9 and samples_total = 10.
C3_StatsOverValid ==
    /\ (Finished /\ result = 0) =>
         LET inrange == SelectSeq(samples, InRange)
             watts   == AscendingWatts(inrange)
         IN  /\ summary.avg_watts = Frac(WattsTotal(inrange), Len(inrange))
             /\ inrange # << >> =>
                  /\ IsInterpolation(watts, Frac(1, 2), summary.median_watts)
                  /\ IsInterpolation(watts, Frac(19, 20), summary.p95_watts)
    /\ (Finished /\ samples = ParsedSamples(TenSampleRun) /\ min_samples <= 9) =>
         /\ result = 0
         /\ FracEq(summary.avg_watts, Frac(5 * WattScale, 1))
         /\ summary.samples_valid = 9
         /\ summary.samples_total = 10

C3_Witness ==
    /\ pc = "done" /\ result = 0
    /\ samples = ParsedSamples(TenSampleRun)
    /\ FracEq(summary.avg_watts, Frac(5 * WattScale, 1))
    /\ summary.samples_valid = 9 /\ summary.samples_total = 10

\* C4: a run with fewer valid samples than min_samples is rejected:
\* analyze_run returns -1 and load_run_summaries stores no summary for it.
C4_TooFewValidRejected ==
    (Finished /\ Cardinality(ValidIndexes) < min_samples) =>
        /\ result = -1
        /\ summaries = << >>

C4_Witness ==
    /\ pc = "done" /\ min_samples = 10
    /\ Cardinality(ValidIndexes) = 3
    /\ result = -1 /\ summaries = << >>

\* C5: for n >= 1 ascending values and 0 <= p <= 1, percentile returns the
\* value at index p*(n-1), linearly interpolated between the two bracketing
\* order statistics: p = 0.5 gives 2.5 on [1,2,3,4], 2 on [1,2,3] and the
\* element itself on a single-element array.
C5_PercentileInterpolates ==
    (pc = "pdone" /\ Len(sorted_data) >= 1) =>
        /\ IsInterpolation(sorted_data, p, presult)
        /\ (p = Frac(1, 2) /\ sorted_data = << 1, 2, 3, 4 >>) => FracEq(presult, Frac(5, 2))
        /\ (p = Frac(1, 2) /\ sorted_data = << 1, 2, 3 >>) => FracEq(presult, Frac(2, 1))
        /\ Len(sorted_data) = 1 => FracEq(presult, Frac(sorted_data[1], 1))

C5_Witness ==
    /\ pc = "pdone" /\ p = Frac(1, 2) /\ sorted_data = << 1, 2, 3, 4 >>
    /\ FracEq(presult, Frac(5, 2))

\* C6: pct_drop is the percentage of the first valid sample in file order
\* minus that of the last valid sample when this is positive, and 0
\* otherwise; percentages 90, 85, 80 with watts 6, 6, 6 give pct_drop = 10
\* and avg_watts = 6.0.
C6_DropClamped ==
    /\ (Finished /\ result = 0 /\ ValidIndexes # {}) =>
         LET first == CHOOSE i \in ValidIndexes : \A j \in ValidIndexes : i <= j
             last  == CHOOSE i \in ValidIndexes : \A j \in ValidIndexes : j <= i
             diff  == samples[first].percentage - samples[last].percentage
         IN  /\ summary.pct_drop = IF diff > 0 THEN diff ELSE 0
             /\ summary.pct_drop >= 0
    /\ (Finished /\ samples = ParsedSamples(DropRun) /\ min_samples <= 3) =>
         /\ result = 0
         /\ summary.pct_drop = 10 * PctScale
         /\ FracEq(summary.avg_watts, Frac(6 * WattScale, 1))

C6_Witness ==
    /\ pc = "done" /\ result = 0
    /\ samples = ParsedSamples(DropRun)
    /\ summary.pct_drop = 10 * PctScale
    /\ FracEq(summary.avg_watts, Frac(6 * WattScale, 1))

\* C7: a run of well-formed records with at least min_samples valid samples
\* (and at least one) of which fewer than half of the total are valid is
\* summarized, and its summary carries a low-confidence flag.
C7_LowConfidenceFlagged ==
    (Finished /\ Cardinality(ValidIndexes) >= min_samples
       /\ Cardinality(ValidIndexes) >= 1
       /\ 2 * Cardinality(ValidIndexes) < Len(samples)
       /\ \A i \in DOMAIN read_lines : read_lines[i].eol /\ ~Malformed(read_lines[i])) =>
        /\ result = 0
        /\ "low_confidence" \in DOMAIN summary
        /\ \A i \in DOMAIN summaries : "low_confidence" \in DOMAIN summaries[i]

\* C8: a malformed line is never counted in samples_valid and adds nothing
\* to the mean: samples_valid counts, and avg_watts averages, only the
\* in-range samples of well-formed lines.
C8_MalformedNeverValid ==
    (Finished /\ result = 0) =>
        LET good == { i \in DOMAIN read_lines :
                        ~Malformed(read_lines[i]) /\ InRange(samples[i]) }
        IN  /\ summary.samples_valid = Cardinality(good)
            /\ \A i \in DOMAIN valid : \E j \in good : valid[i] = samples[j]

\* C9: a trailing partial line is absent data: the parsing pass makes no
\* sample of a line that the file ends in the middle of, and such a line is
\* never among the valid samples.
C9_PartialLineAbsent ==
    /\ \A i \in DOMAIN read_lines : read_lines[i].eol
    /\ (Finished /\ result = 0) =>
           summary.samples_valid <=
               Cardinality({ i \in DOMAIN read_lines : read_lines[i].eol })

\* C10: a summary is returned only when at least one valid sample exists,
\* so none of its four averages is the result of 0/0.
C10_NoZeroDivision ==
    (Finished /\ result = 0) =>
        /\ summary.samples_valid >= 1
        /\ ~IsNaN(summary.avg_watts)
        /\ ~IsNaN(summary.avg_cpu_load)
        /\ ~IsNaN(summary.avg_ram_pct)
        /\ ~IsNaN(summary.avg_temp_c)

-----------------------------------------------------------------------------
(* batlab.c: one logging session, cmd_log from fopen to its return, and     *)
(* signal_handler.  The timestamp of the tick that starts after n ticks is  *)
(* n.  The records of the stream stay in the stdio buffer until fflush or   *)
(* fclose: ten records are shorter than the buffer.                         *)

\* ticks of one session
MaxTicks == 11
\* signals delivered to one session
MaxSignals == 1

\* if (sample_count % 10 == 0) fflush(log_file)
FlushEvery == 10
\* if (error_count > 10 && sample_count == 0) break
StartupErrorLimit == 10

\* a host none of whose battery sources can be read
DeadLinuxHost ==
    [charging |-> FALSE,
     upower |-> [ok |-> FALSE, state |-> NoText, pct |-> -1, rate |-> -1],
     bat0 |-> AbsentNode, bat1 |-> AbsentNode, sensors |-> LinuxSensors]

DeadFreeBSDHost ==
    [charging |-> FALSE,
     acpiconf |-> [ok |-> FALSE, state |-> NoText, pct |-> -1, rate |-> -1],
     sysctl |-> [life |-> -1, rate |-> -1, state |-> 1], sensors |-> FreeBSDSensors]

\* what the host shows in one tick of a session
TickHosts(o) ==
    IF o = "linux" THEN { GoodLinuxHost(LinuxSensors), DeadLinuxHost }
    ELSE { GoodFreeBSDHost(FreeBSDSensors), DeadFreeBSDHost }

\* a file left by an earlier session
OldLog == << GoodA >>

\* while (running)
LoopNeverStops(flag) == TRUE

LoopContinues(flag) == flag # 0

\* the flush test after a written sample
FlushDueNever(count) == FALSE

FlushDue(count) == count % FlushEvery = 0

\* the file after the buffer was rewritten over it
WriteOutFromStart(file, buffer) == buffer

\* fflush, fclose: the bytes of the buffer go to the end of the file
WriteOut(file, buffer) == file \o buffer

\* the break of the error branch
StartupFailure(errors, count) == errors > StartupErrorLimit /\ count = 0

\* ticks the loop has started
TicksStarted == log_sample_count + log_error_count + (IF pc = "ltick" THEN 1 ELSE 0)

InitLog ==
    /\ os \in { "linux", "freebsd" }
    /\ host \in TickHosts(os)
    /\ disk \in { << >>, OldLog }
    /\ pc = "lopen"
    /\ consulted = << >>
    /\ binfo = << >>
    /\ metrics = << >>
    /\ AnalysisIdle /\ LogIdle /\ SessionsIdle /\ RestIdle

\* the value wait_for_battery_ready returns: 0 after a reading, 0 without one
wait_for_battery_ready(o, h) == IF get_battery_info(o, h).rc = 0 THEN 0 ELSE 0

\* cmd_log from wait_for_battery_ready to log_file = fopen(jsonl_file, "w"),
\* up to the loop; return 1 when either fails
OpenLog ==
    /\ pc = "lopen"
    /\ \E opened \in BOOLEAN :
         IF wait_for_battery_ready(os, host) = 0 /\ opened
         THEN disk' = << >> /\ log_file' = "open" /\ pc' = "lcheck"
         ELSE disk' = disk /\ log_file' = "null" /\ pc' = "lfailed"
    /\ UNCHANGED << appends, min_samples, line_count, read_lines, samples,
                    valid, summary, result, summaries, sorted_data, p, presult,
                    telemetryVars, running, stream, log_sample_count,
                    log_error_count, sig_ticks, stderr_sig, sessionVars,
                    restVars >>

\* the test of the while statement
LoopCheck ==
    /\ pc = "lcheck"
    /\ IF LoopContinues(running)
       THEN TicksStarted < MaxTicks /\ pc' = "ltick"
       ELSE pc' = "lclose"
    /\ UNCHANGED << disk, appends, min_samples, line_count, read_lines, samples,
                    valid, summary, result, summaries, sorted_data, p, presult,
                    telemetryVars, logVars, sessionVars,
                    restVars >>

\* the body of the loop: collect_telemetry, the record, the flush, or the
\* error branch; then usleep
Tick ==
    /\ pc = "ltick"
    /\ \E h \in TickHosts(os), garbage \in StackGarbage :
         LET now == log_sample_count + log_error_count
             r == collect_telemetry(os, h, now, garbage)
             written == Append(stream, LogRecord(r.sample))
         IN  /\ host' = h
             /\ IF r.rc = 0
                THEN /\ log_sample_count' = log_sample_count + 1
                     /\ IF FlushDue(log_sample_count')
                        THEN disk' = WriteOut(disk, written) /\ stream' = << >>
                        ELSE disk' = disk /\ stream' = written
                     /\ log_error_count' = log_error_count
                     /\ pc' = "lcheck"
                ELSE /\ log_error_count' = log_error_count + 1
                     /\ pc' = IF StartupFailure(log_error_count', log_sample_count)
                              THEN "lclose" ELSE "lcheck"
                     /\ UNCHANGED << disk, stream, log_sample_count >>
    /\ UNCHANGED << appends, min_samples, line_count, read_lines, samples,
                    valid, summary, result, summaries, sorted_data, p, presult,
                    os, consulted, binfo, metrics, running, log_file, sig_ticks,
                    stderr_sig, sessionVars,
                    restVars >>

\* signal_handler(SIGINT or SIGTERM), at any point of the session
SignalHandler ==
    /\ pc \in { "lopen", "lcheck", "ltick", "lclose" }
    /\ stderr_sig < MaxSignals
    /\ running' = 0
    /\ stderr_sig' = IF log_file = "open" THEN stderr_sig + 1 ELSE stderr_sig
    /\ sig_ticks' = IF sig_ticks = -1 THEN TicksStarted ELSE sig_ticks
    /\ UNCHANGED << disk, appends, min_samples, pc, line_count, read_lines,
                    samples, valid, summary, result, summaries, sorted_data, p,
                    presult, telemetryVars, log_file, stream, log_sample_count,
                    log_error_count, sessionVars,
                    restVars >>

\* if (log_file) { fclose(log_file); log_file = NULL; } and the return
CloseLog ==
    /\ pc = "lclose"
    /\ disk' = WriteOut(disk, stream)
    /\ stream' = << >>
    /\ log_file' = "null"
    /\ pc' = "lreturned"
    /\ UNCHANGED << appends, min_samples, line_count, read_lines, samples,
                    valid, summary, result, summaries, sorted_data, p, presult,
                    telemetryVars, running, log_sample_count, log_error_count,
                    sig_ticks, stderr_sig, sessionVars,
                    restVars >>

NextLog == OpenLog \/ LoopCheck \/ Tick \/ SignalHandler \/ CloseLog

SpecLog == InitLog /\ [][NextLog]_vars

\* cmd_log is one thread that runs on: every statement it has reached is
\* executed, the external query of a tick returning
SpecLogFair ==
    /\ SpecLog
    /\ WF_vars(OpenLog) /\ WF_vars(LoopCheck) /\ WF_vars(Tick) /\ WF_vars(CloseLog)

-----------------------------------------------------------------------------
(* batlab.c: the logging sessions of one host that share a data directory. *)
(* cmd_log names its log after the run id, or after the -o argument.        *)

\* seconds the clock of the host advances
MaxClock == 2
\* logging sessions started on the host
MaxSessions == 2

Sessions == 1..MaxSessions

\* configuration labels given to `batlab log`
Configs == { "cfgA", "cfgB" }

\* the -o argument: none, or a path
NoOutput == ""
Outputs == { NoOutput, "out.jsonl" }

\* generate_run_id: "%s_%s_%s_%s" of the timestamp (strftime
\* "%Y-%m-%dT%H:%M:%SZ": whole seconds), the host name, the OS name and the
\* configuration label
generate_run_id(config, now, hostname, os_name) ==
    << now, hostname, os_name, config >>

\* jsonl_file: the -o argument, else "<data_dir>/<run_id>.jsonl"
JsonlFile(output_file, data_dir, run_id) ==
    IF output_file # NoOutput THEN << "path", output_file >>
    ELSE << "path", data_dir, run_id >>

\* a session not started yet
NoSession == [pc |-> "idle", config |-> "", output |-> NoOutput, file |-> << >>]

InitSessions ==
    /\ clock = 0
    /\ sess = [i \in Sessions |-> NoSession]
    /\ os \in { "linux", "freebsd" }
    /\ host = << >>
    /\ consulted = << >>
    /\ binfo = << >>
    /\ metrics = << >>
    /\ pc = "sessions"
    /\ disk = << >>
    /\ AnalysisIdle /\ LogIdle /\ RestIdle

\* a second passes
ClockTick ==
    /\ clock < MaxClock
    /\ clock' = clock + 1
    /\ UNCHANGED << disk, appends, min_samples, pc, line_count, read_lines,
                    samples, valid, summary, result, summaries, sorted_data, p,
                    presult, telemetryVars, logVars, sess,
                    restVars >>

\* cmd_log up to the names of its files
StartSession(i) ==
    /\ sess[i].pc = "idle"
    /\ \E config \in Configs, output_file \in Outputs :
         LET run_id == generate_run_id(config, clock, "host",
                                       IF os = "linux" THEN "Linux" ELSE "FreeBSD")
         IN  sess' = [sess EXCEPT ![i] =
                        [pc |-> "named", config |-> config, output |-> output_file,
                         file |-> JsonlFile(output_file, "data", run_id)]]
    /\ UNCHANGED << disk, appends, min_samples, pc, line_count, read_lines,
                    samples, valid, summary, result, summaries, sorted_data, p,
                    presult, telemetryVars, logVars, clock,
                    restVars >>

\* log_file = fopen(jsonl_file, "w"): no test that the file exists, no lock
OpenSessionLog(i) ==
    /\ sess[i].pc = "named"
    /\ sess' = [sess EXCEPT ![i].pc = "logging"]
    /\ UNCHANGED << disk, appends, min_samples, pc, line_count, read_lines,
                    samples, valid, summary, result, summaries, sorted_data, p,
                    presult, telemetryVars, logVars, clock,
                    restVars >>

\* the loop was left and the log closed
EndSession(i) ==
    /\ sess[i].pc = "logging"
    /\ sess' = [sess EXCEPT ![i].pc = "ended"]
    /\ UNCHANGED << disk, appends, min_samples, pc, line_count, read_lines,
                    samples, valid, summary, result, summaries, sorted_data, p,
                    presult, telemetryVars, logVars, clock,
                    restVars >>

NextSessions ==
    \/ ClockTick
    \/ \E i \in Sessions : StartSession(i)
    \/ \E i \in Sessions : OpenSessionLog(i)
    \/ \E i \in Sessions : EndSession(i)

SpecSessions == InitSessions /\ [][NextSessions]_vars

-----------------------------------------------------------------------------
(* analysis.c, batlab.c: load_run_summaries over a data directory, called  *)
(* by cmd_report (cmd_export is cmd_report with min_samples 1).  readdir    *)
(* returns the entries in any order.                                        *)

\* .jsonl files in the data directory when the command starts
MaxFiles == 3
\* .jsonl files that appear while load_run_summaries runs
MaxNewFiles == 1

\* the base names of the files, each a run id
FileNames == 1..(MaxFiles + MaxNewFiles)

\* a file of the directory: whether fopen succeeds, and its lines
LogFile(readable, lines) == [readable |-> readable, lines |-> lines]

\* two valid samples; one valid sample; two samples out of range; no line;
\* a file that cannot be opened
FileKinds ==
    { LogFile(TRUE, << GoodA, GoodB >>), LogFile(TRUE, << GoodA >>),
      LogFile(TRUE, << TooHigh, Negative >>), LogFile(TRUE, << >>),
      LogFile(FALSE, << GoodA, GoodB >>) }

\* analyze_run on one file: parse_jsonl_file, then the checks and the
\* statistics; run_id is the base name of the file
analyze_run(name, file, min) ==
    IF ~file.readable \/ CountLines(file.lines) = 0
    THEN [result |-> -1, run_id |-> name, summary |-> ZeroSummary]
    ELSE LET smpls == ParsedSamples(ParseLoop(file.lines, 1, CountLines(file.lines), << >>))
         IN  IF Len(smpls) = 0
             THEN [result |-> -1, run_id |-> name, summary |-> ZeroSummary]
             ELSE LET r == AnalyzeSamples(smpls, min, TRUE)
                  IN  [result |-> r.result, run_id |-> name, summary |-> r.summary]

\* a rejected run empties the array
StoreOrReset(arr, r) ==
    IF r.result = 0 THEN Append(arr, [run_id |-> r.run_id, summary |-> r.summary])
    ELSE << >>

\* if (analyze_run(...) == 0) (*summaries)[valid_runs++] = summary
StoreSummary(arr, r) ==
    IF r.result = 0 THEN Append(arr, [run_id |-> r.run_id, summary |-> r.summary])
    ELSE arr

InitBatch ==
    /\ \E n \in 0..MaxFiles : dirfiles \in [1..n -> FileKinds]
    /\ min_samples \in { 1, 2 }
    /\ visited = { }
    /\ jsonl_count = 0
    /\ exit_status = -1
    /\ summaries = << >>
    /\ pc = "bcount"
    /\ disk = << >>
    /\ appends = 0
    /\ line_count = 0
    /\ read_lines = << >>
    /\ samples = << >>
    /\ valid = << >>
    /\ summary = ZeroSummary
    /\ result = 1
    /\ sorted_data = << >>
    /\ p = Frac(0, 1)
    /\ presult = Frac(0, 1)
    /\ TelemetryIdle /\ LogIdle /\ SessionsIdle
    /\ IdentIdle /\ SuspendIdle /\ RoundIdle

\* opendir and the first pass; with no .jsonl entry load_run_summaries
\* returns 0, with no directory -1 and cmd_report 1
CountFiles ==
    /\ pc = "bcount"
    /\ \E opened \in BOOLEAN :
         IF ~opened
         THEN /\ exit_status' = 1 /\ pc' = "bdone"
              /\ jsonl_count' = jsonl_count
         ELSE /\ jsonl_count' = Cardinality(DOMAIN dirfiles)
              /\ pc' = IF jsonl_count' = 0 THEN "breport" ELSE "bscan"
              /\ exit_status' = exit_status
    /\ UNCHANGED << disk, appends, min_samples, line_count, read_lines, samples,
                    valid, summary, result, summaries, sorted_data, p, presult,
                    telemetryVars, logVars, sessionVars, dirfiles, visited,
                    identVars, suspendVars, tsample >>

\* a file is created in the directory after the first pass: the log of a
\* session that has flushed samples, or a file copied in
NewRunAppears ==
    /\ pc = "bscan"
    /\ Cardinality(DOMAIN dirfiles) < jsonl_count + MaxNewFiles
    /\ \E f \in FileNames \ DOMAIN dirfiles, kind \in FileKinds :
         dirfiles' = [g \in DOMAIN dirfiles \cup { f } |->
                        IF g = f THEN kind ELSE dirfiles[g]]
    /\ UNCHANGED << disk, appends, min_samples, pc, line_count, read_lines,
                    samples, valid, summary, result, summaries, sorted_data, p,
                    presult, telemetryVars, logVars, sessionVars, visited,
                    jsonl_count, exit_status, identVars, suspendVars, tsample >>

\* the second pass reads one entry and analyzes it.  A store into slot
\* jsonl_count or beyond is a write past the end of the malloc'ed array:
\* it lands in the heap behind the array, or the process is killed.
VisitEntry ==
    /\ pc = "bscan"
    /\ \E f \in DOMAIN dirfiles \ visited :
         LET r == analyze_run(f, dirfiles[f], min_samples)
         IN  /\ visited' = visited \cup { f }
             /\ summaries' = StoreSummary(summaries, r)
             /\ \E survives \in BOOLEAN :
                  IF Len(summaries') > jsonl_count /\ ~survives
                  THEN pc' = "bcrashed"
                  ELSE pc' = pc
    /\ UNCHANGED << disk, appends, min_samples, line_count, read_lines, samples,
                    valid, summary, result, sorted_data, p, presult,
                    telemetryVars, logVars, sessionVars, dirfiles, jsonl_count,
                    exit_status, identVars, suspendVars, tsample >>

\* readdir returns NULL: closedir, *count = valid_runs, realloc, return 0
FinishScan ==
    /\ pc = "bscan"
    /\ visited = DOMAIN dirfiles
    /\ pc' = "breport"
    /\ UNCHANGED << disk, appends, min_samples, line_count, read_lines, samples,
                    valid, summary, result, summaries, sorted_data, p, presult,
                    telemetryVars, logVars, sessionVars, batchVars,
                    identVars, suspendVars, tsample >>

\* cmd_report after load_run_summaries returned 0: with count == 0 the
\* message and return 0, else the table and return 0
Report ==
    /\ pc = "breport"
    /\ exit_status' = 0
    /\ pc' = "bdone"
    /\ UNCHANGED << disk, appends, min_samples, line_count, read_lines, samples,
                    valid, summary, result, summaries, sorted_data, p, presult,
                    telemetryVars, logVars, sessionVars, dirfiles, visited,
                    jsonl_count, identVars, suspendVars, tsample >>

NextBatch == CountFiles \/ VisitEntry \/ FinishScan \/ Report

\* a directory nothing else writes to while the command runs
SpecBatch == InitBatch /\ [][NextBatch]_vars

NextBatchLive == NextBatch \/ NewRunAppears

\* a directory in which files appear while the command runs
SpecBatchLive == InitBatch /\ [][NextBatchLive]_vars

-----------------------------------------------------------------------------
(* The run id: generate_run_id of the logger, parse_run_id_fallback of the  *)
(* analysis.  A text is the sequence of its characters; a fixed word that   *)
(* holds no '_' ("Linux", ".jsonl") is written as one element.              *)

\* generate_run_id called with workload == NULL
NullWorkload == << "NULL" >>

\* strftime "%Y-%m-%dT%H:%M:%SZ" of two moments
Timestamps == { << "t", "1" >>, << "t", "2" >> }

\* gethostname
Hostnames == { << "h" >>, << "h", "-", "x" >>, << "h", "_", "x" >> }

\* os_name of generate_run_id
OsNames == { << "FreeBSD" >>, << "Linux" >>, << "Unknown" >> }

\* the config argument of `batlab log`
ConfigLabels == { << "c" >>, << "c", "-", "d" >>, << "c", "_", "d" >>, << "_", "c" >> }

\* the workload argument of generate_run_id
Workloads == { NullWorkload, << "w" >>, << "w", "_", "v" >> }

\* snprintf "%s_%s_%s_%s" or "%s_%s_%s_%s_%s"
run_id_text(timestamp, hostname, os_name, config, workload) ==
    LET four == timestamp \o << "_" >> \o hostname \o << "_" >> \o os_name
                \o << "_" >> \o config
    IN  IF workload # NullWorkload THEN four \o << "_" >> \o workload ELSE four

\* "<run_id>.jsonl", the name of the log in the data directory
LogName(run_id) == run_id \o << ".jsonl" >>

\* analyze_run: the base name up to the first ".jsonl"
RECURSIVE BaseRunId(_)
BaseRunId(filename) ==
    IF filename = << >> \/ Head(filename) = ".jsonl" THEN << >>
    ELSE << Head(filename) >> \o BaseRunId(Tail(filename))

\* strtok(.., "_") until NULL: the maximal runs of characters other than '_'
RECURSIVE strtok(_, _, _)
strtok(text, token, parts) ==
    IF text = << >>
    THEN IF token = << >> THEN parts ELSE Append(parts, token)
    ELSE IF Head(text) = "_"
         THEN strtok(Tail(text), << >>,
                     IF token = << >> THEN parts ELSE Append(parts, token))
         ELSE strtok(Tail(text), Append(token, Head(text)), parts)

\* char *parts[6]
MaxParts == 6

parse_run_id_fallback(run_id) ==
    LET all == strtok(run_id, << >>, << >>)
        part_count == IF Len(all) < MaxParts THEN Len(all) ELSE MaxParts
    IN  IF part_count >= 4
        THEN [os |-> all[3], config |-> all[4],
              workload |-> IF part_count >= 5 THEN all[5] ELSE << >>]
        ELSE [os |-> << "unknown" >>, config |-> << "unknown" >>, workload |-> << >>]

NotParsed == [os |-> << >>, config |-> << >>, workload |-> << >>]

InitIdent ==
    /\ \E timestamp \in Timestamps, hostname \in Hostnames, os_name \in OsNames,
          config \in ConfigLabels, workload \in Workloads :
         ident = [timestamp |-> timestamp, hostname |-> hostname,
                  os_name |-> os_name, config |-> config, workload |-> workload,
                  parsed |-> NotParsed]
    /\ run_text = << >>
    /\ pc = "igen"
    /\ disk = << >>
    /\ AnalysisIdle /\ TelemetryIdle /\ LogIdle /\ SessionsIdle
    /\ BatchIdle /\ SuspendIdle /\ RoundIdle

\* the run id is built and the log of the session is named after it
GenerateRunId ==
    /\ pc = "igen"
    /\ run_text' = LogName(run_id_text(ident.timestamp, ident.hostname,
                                       ident.os_name, ident.config, ident.workload))
    /\ pc' = "ifallback"
    /\ UNCHANGED << disk, appends, min_samples, line_count, read_lines, samples,
                    valid, summary, result, summaries, sorted_data, p, presult,
                    telemetryVars, logVars, sessionVars, batchVars, ident,
                    suspendVars, tsample >>

\* analyze_run of that log with no config in a sidecar file
AnalyzeFallback ==
    /\ pc = "ifallback"
    /\ ident' = [ident EXCEPT !.parsed = parse_run_id_fallback(BaseRunId(run_text))]
    /\ pc' = "idone"
    /\ UNCHANGED << disk, appends, min_samples, line_count, read_lines, samples,
                    valid, summary, result, summaries, sorted_data, p, presult,
                    telemetryVars, logVars, sessionVars, batchVars, run_text,
                    suspendVars, tsample >>

NextIdent == GenerateRunId \/ AnalyzeFallback

SpecIdent == InitIdent /\ [][NextIdent]_vars

-----------------------------------------------------------------------------
(* One sample through the log: the fprintf of cmd_log, then parse_json_line *)
(* on the text.  The text is a sequence of tokens: a punctuation character, *)
(* a word, or a number literal with its value in units of its last decimal. *)
(* The values of a sample in memory are in units of 1/FineScale.            *)

\* decimals kept for a value in memory
FineDecimals == 4

RECURSIVE Pow10(_)
Pow10(d) == IF d = 0 THEN 1 ELSE 10 * Pow10(d - 1)

FineScale == Pow10(FineDecimals)

Ch(c) == [ch |-> c, n |-> 0, d |-> 0]
Num(n, d) == [ch |-> "#", n |-> n, d |-> d]

\* a number cut after d decimals
TruncTo(v, d) ==
    LET q == Pow10(FineDecimals - d)
        a == IF v < 0 THEN -v ELSE v
    IN  IF v < 0 THEN -(a \div q) ELSE a \div q

\* %.<d>f: the nearest number with d decimals, a tie to the even digit
RoundTo(v, d) ==
    LET q == Pow10(FineDecimals - d)
        a == IF v < 0 THEN -v ELSE v
        k == a \div q
        r == a % q
        m == IF 2 * r > q \/ (2 * r = q /\ k % 2 = 1) THEN k + 1 ELSE k
    IN  IF v < 0 THEN -m ELSE m

\* "key": with the blank that follows it in the format
KeyText(key) == << Ch("\""), Ch(key), Ch("\""), Ch(":"), Ch(" ") >>

StrText(s) == << Ch("\"") >> \o [i \in DOMAIN s |-> Ch(s[i])] \o << Ch("\"") >>

Comma == << Ch(","), Ch(" ") >>

\* the line cmd_log prints for a sample
fprintf_sample(sample) ==
    << Ch("{") >>
    \o KeyText("t") \o StrText(sample.timestamp) \o Comma
    \o KeyText("pct") \o << Num(RoundTo(sample.percentage, 1), 1) >> \o Comma
    \o KeyText("watts") \o << Num(RoundTo(sample.watts, 3), 3) >> \o Comma
    \o KeyText("cpu_load") \o << Num(RoundTo(sample.cpu_load, 2), 2) >> \o Comma
    \o KeyText("ram_pct") \o << Num(RoundTo(sample.ram_pct, 3), 3) >> \o Comma
    \o KeyText("temp_c") \o << Num(RoundTo(sample.temp_c, 2), 2) >> \o Comma
    \o KeyText("src") \o StrText(sample.source)
    \o << Ch("}"), Ch("\n") >>

\* strstr(json, "\"key\":") + strlen(pattern): the position after the first
\* occurrence of the pattern, 0 if there is none
AfterKey(text, key) ==
    LET pat == << Ch("\""), Ch(key), Ch("\""), Ch(":") >>
        hits == { i \in 1..(Len(text) - 3) : SubSeq(text, i, i + 3) = pat }
    IN  IF hits = { } THEN 0
        ELSE (CHOOSE i \in hits : \A j \in hits : i <= j) + 4

\* while (*value_start == ' ' || *value_start == '\t') value_start++
RECURSIVE SkipBlanks(_, _)
SkipBlanks(text, i) ==
    IF i <= Len(text) /\ text[i].ch \in { " ", "\t" } THEN SkipBlanks(text, i + 1)
    ELSE i

\* parse_json_double on the text, in units of 1/FineScale
parse_json_double_text(text, key) ==
    LET a == AfterKey(text, key)
        i == SkipBlanks(text, a)
    IN  IF a = 0 \/ i > Len(text) THEN 0
        ELSE IF text[i].ch = "#" THEN text[i].n * Pow10(FineDecimals - text[i].d)
        ELSE 0

\* strchr(value_start, '"'): the position of the next quote, 0 if none
NextQuote(text, i) ==
    LET qs == { j \in i..Len(text) : text[j].ch = "\"" }
    IN  IF qs = { } THEN 0 ELSE CHOOSE j \in qs : \A k \in qs : j <= k

\* parse_json_string on the text; the values the logger prints (30 and at
\* most 8 characters) are shorter than the buffers (64 and 32)
parse_json_string_text(text, key) ==
    LET a == AfterKey(text, key)
        i == SkipBlanks(text, a)
    IN  IF a = 0 \/ i > Len(text) \/ text[i].ch # "\"" THEN << >>
        ELSE LET e == NextQuote(text, i + 1)
             IN  IF e = 0 THEN << >>
                 ELSE [j \in 1..(e - i - 1) |-> text[i + j].ch]

parse_json_line_text(text) ==
    [timestamp  |-> parse_json_string_text(text, "t"),
     percentage |-> parse_json_double_text(text, "pct"),
     watts      |-> parse_json_double_text(text, "watts"),
     cpu_load   |-> parse_json_double_text(text, "cpu_load"),
     ram_pct    |-> parse_json_double_text(text, "ram_pct"),
     temp_c     |-> parse_json_double_text(text, "temp_c"),
     source     |-> parse_json_string_text(text, "src")]

\* strftime "%Y-%m-%dT%H:%M:%S.000000000Z"
SampleTimestamps ==
    { << "2025-01-01", "T", "10", ":", "00", ":", "00", ".000000000Z" >>,
      << "2025-01-01", "T", "10", ":", "01", ":", "00", ".000000000Z" >> }

\* the tags the readers write
SourceTags == { << "upower" >>, << "sysfs" >>, << "acpiconf" >>, << "sysctl" >> }

\* the samples collect_telemetry returns: percentages, watts, load, memory
\* and temperature (0.0 when unread, a negative value from an unassigned
\* variable)
TelemetrySamples ==
    [timestamp : SampleTimestamps,
     percentage : { 0, 2500, 803456, 1000000 },
     watts : { 0, 61235, 61238 },
     cpu_load : { 0, 12345 },
     ram_pct : { 401234 },
     temp_c : { 0, 450000, -123456 },
     source : SourceTags]

InitRound ==
    /\ \E sample \in TelemetrySamples :
         tsample = [sample |-> sample, text |-> << >>, parsed |-> << >>]
    /\ pc = "rprint"
    /\ disk = << >>
    /\ AnalysisIdle /\ TelemetryIdle /\ LogIdle /\ SessionsIdle
    /\ BatchIdle /\ IdentIdle /\ SuspendIdle

\* cmd_log writes the line of the sample
PrintSample ==
    /\ pc = "rprint"
    /\ tsample' = [tsample EXCEPT !.text = fprintf_sample(tsample.sample)]
    /\ pc' = "rparse"
    /\ UNCHANGED << disk, appends, min_samples, line_count, read_lines, samples,
                    valid, summary, result, summaries, sorted_data, p, presult,
                    telemetryVars, logVars, sessionVars, batchVars, identVars,
                    suspendVars >>

\* parse_jsonl_file hands the line to parse_json_line
ParseSample ==
    /\ pc = "rparse"
    /\ tsample' = [tsample EXCEPT !.parsed = parse_json_line_text(tsample.text)]
    /\ pc' = "rdone"
    /\ UNCHANGED << disk, appends, min_samples, line_count, read_lines, samples,
                    valid, summary, result, summaries, sorted_data, p, presult,
                    telemetryVars, logVars, sessionVars, batchVars, identVars,
                    suspendVars >>

NextRound == PrintSample \/ ParseSample

SpecRound == InitRound /\ [][NextRound]_vars

-----------------------------------------------------------------------------
(* The analysis of a finished run whose samples carry their times *)

\* longest timed log
MaxTimed == 3

\* the "t" member of a line: no text, or the time of the sample
TimeTexts == { "", "10:00:00", "10:01:00", "10:02:00", "10:10:00" }

\* seconds since 10:00:00
SecondsOf ==
    [ts \in TimeTexts \ { "" } |->
        CASE ts = "10:00:00" -> 0
          [] ts = "10:01:00" -> 60
          [] ts = "10:02:00" -> 120
          [] ts = "10:10:00" -> 600]

\* the line of a sample taken at ts; good = its values pass the filter
TimedRec(ts, good) ==
    LogRecord([Sample(80 * PctScale, (IF good THEN 6 ELSE 200) * WattScale, 50, "upower")
                 EXCEPT !.timestamp = ts])

TimedLines == { TimedRec(ts, good) : ts \in TimeTexts, good \in BOOLEAN }

TimedLogs == UNION { [1..n -> TimedLines] : n \in 0..MaxTimed }

InitDuration ==
    /\ disk \in TimedLogs
    /\ min_samples \in { 1, 2 }
    /\ pc = "start"
    /\ appends = 0
    /\ line_count = 0
    /\ read_lines = << >>
    /\ samples = << >>
    /\ valid = << >>
    /\ summary = ZeroSummary
    /\ result = 1
    /\ summaries = << >>
    /\ sorted_data = << >>
    /\ p = Frac(0, 1)
    /\ presult = Frac(0, 1)
    /\ TelemetryIdle /\ LogIdle /\ SessionsIdle /\ RestIdle

NextDuration == CountPass \/ ParsePass \/ Analyze \/ Store

\* the analysis of a log nothing writes to any more
SpecDuration == InitDuration /\ [][NextDuration]_vars

-----------------------------------------------------------------------------
(* Suspension inhibitors: a `batlab log` session and a `batlab run` on one  *)
(* host.  An inhibitor is a background process (systemd-inhibit ... or       *)
(* caffeine) started by prevent_system_suspension; restore_system_suspension *)
(* ends processes by name with pkill.                                        *)

\* samples the session takes while the workload is followed
MaxSamplesTaken == 2

\* which <tool> finds on the host
InstalledTools == SUBSET { "systemd-inhibit", "caffeine" }

\* the users the two commands are started by
Users == { "user", "root" }

\* prevent_system_suspension: the inhibitor it starts, none without a tool
prevent_system_suspension(tools, owner, uid) ==
    IF "systemd-inhibit" \in tools
    THEN { [owner |-> owner, kind |-> "systemd-inhibit", uid |-> uid] }
    ELSE IF "caffeine" \in tools
    THEN { [owner |-> owner, kind |-> "caffeine", uid |-> uid] }
    ELSE { }

\* pkill ends every process of the name the caller may signal: its own, and
\* as root everybody's
MaySignal(uid, x) == uid = "root" \/ x.uid = uid

\* restore_system_suspension: pkill -f 'systemd-inhibit.*batlab', pkill
\* caffeine; the inhibitors that are left
restore_system_suspension(inh, uid) == { x \in inh : ~MaySignal(uid, x) }

InitSuspend ==
    /\ \E tools \in InstalledTools, lu \in Users, ru \in Users :
         procs = [tools |-> tools,
                  log |-> [pc |-> "start", uid |-> lu, prevented |-> FALSE, taken |-> 0],
                  run |-> [pc |-> "start", uid |-> ru]]
    /\ inhibitors = { }
    /\ pc = "suspend"
    /\ disk = << >>
    /\ AnalysisIdle /\ TelemetryIdle /\ LogIdle /\ SessionsIdle
    /\ BatchIdle /\ IdentIdle /\ RoundIdle

\* cmd_log up to the loop: prevent_system_suspension()
LogPrevent ==
    /\ procs.log.pc = "start"
    /\ LET started == prevent_system_suspension(procs.tools, "log", procs.log.uid)
       IN  /\ inhibitors' = inhibitors \cup started
           /\ procs' = [procs EXCEPT !.log.pc = "sampling",
                                     !.log.prevented = (started # { })]
    /\ UNCHANGED << disk, appends, min_samples, pc, line_count, read_lines,
                    samples, valid, summary, result, summaries, sorted_data, p,
                    presult, telemetryVars, logVars, sessionVars, batchVars,
                    identVars, tsample >>

\* one turn of the sampling loop
LogSample ==
    /\ procs.log.pc = "sampling"
    /\ procs.log.taken < MaxSamplesTaken
    /\ procs' = [procs EXCEPT !.log.taken = @ + 1]
    /\ UNCHANGED << disk, appends, min_samples, pc, line_count, read_lines,
                    samples, valid, summary, result, summaries, sorted_data, p,
                    presult, telemetryVars, logVars, sessionVars, batchVars,
                    identVars, inhibitors, tsample >>

\* the loop of cmd_log ends: fclose, restore_system_suspension(), return
LogStop ==
    /\ procs.log.pc = "sampling"
    /\ inhibitors' = restore_system_suspension(inhibitors, procs.log.uid)
    /\ procs' = [procs EXCEPT !.log.pc = "stopped"]
    /\ UNCHANGED << disk, appends, min_samples, pc, line_count, read_lines,
                    samples, valid, summary, result, summaries, sorted_data, p,
                    presult, telemetryVars, logVars, sessionVars, batchVars,
                    identVars, tsample >>

\* cmd_run up to waitpid: no such workload and return 1; else
\* prevent_system_suspension() and fork; a failed fork restores and returns 1
RunStart ==
    /\ procs.run.pc = "start"
    /\ \E found \in BOOLEAN, forked \in BOOLEAN :
         LET started == prevent_system_suspension(procs.tools, "run", procs.run.uid)
         IN  IF ~found
             THEN /\ inhibitors' = inhibitors
                  /\ procs' = [procs EXCEPT !.run.pc = "failed"]
             ELSE IF forked
             THEN /\ inhibitors' = inhibitors \cup started
                  /\ procs' = [procs EXCEPT !.run.pc = "workload"]
             ELSE /\ inhibitors' = restore_system_suspension(inhibitors \cup started,
                                                            procs.run.uid)
                  /\ procs' = [procs EXCEPT !.run.pc = "failed"]
    /\ UNCHANGED << disk, appends, min_samples, pc, line_count, read_lines,
                    samples, valid, summary, result, summaries, sorted_data, p,
                    presult, telemetryVars, logVars, sessionVars, batchVars,
                    identVars, tsample >>

\* the workload ends: waitpid returns, restore_system_suspension(), return
RunComplete ==
    /\ procs.run.pc = "workload"
    /\ inhibitors' = restore_system_suspension(inhibitors, procs.run.uid)
    /\ procs' = [procs EXCEPT !.run.pc = "completed"]
    /\ UNCHANGED << disk, appends, min_samples, pc, line_count, read_lines,
                    samples, valid, summary, result, summaries, sorted_data, p,
                    presult, telemetryVars, logVars, sessionVars, batchVars,
                    identVars, tsample >>

NextSuspend == LogPrevent \/ LogSample \/ LogStop \/ RunStart \/ RunComplete

SpecSuspend == InitSuspend /\ [][NextSuspend]_vars

-----------------------------------------------------------------------------
(* Properties of the battery readers and of the system metrics *)

\* get_battery_info has returned
BatteryCallDone == pc \in { "metrics", "collected", "failed" }

\* the reader whose block returned
LastReader == consulted[Len(consulted)]

\* the source of a reader reports that the battery is charging
SourceReportsCharging(name, h) ==
    CASE name = "upower"   -> h.upower.state = TextCharging
      [] name = "sysfs"    -> h.bat0.status = StatusCharging \/ h.bat1.status = StatusCharging
      [] name = "acpiconf" -> h.acpiconf.state = TextCharging
      [] name = "sysctl"   -> h.sysctl.state = 2

\* C11: whenever the source of the reader that answers reports a charging
\* battery, get_battery_info returns failure, on Linux and on FreeBSD, so
\* that no sample of a charging battery is produced.
C11_ChargingIsFailure ==
    (BatteryCallDone /\ SourceReportsCharging(LastReader, host)) => binfo.rc = -1

\* the source of a reader can be read and shows a percentage
HasPercentage(name, h) ==
    CASE name = "upower"   -> h.upower.ok /\ h.upower.pct >= 0
      [] name = "sysfs"    -> h.bat0.capacity >= 0 \/ h.bat1.capacity >= 0
      [] name = "acpiconf" -> h.acpiconf.ok /\ h.acpiconf.pct >= 0
      [] name = "sysctl"   -> h.sysctl.life >= 0

\* the percentages the source of a reader shows, in 1/PctScale %
SourcePercentages(name, h) ==
    CASE name = "upower"   -> { h.upower.pct }
      [] name = "sysfs"    -> { h.bat0.capacity * PctScale, h.bat1.capacity * PctScale }
      [] name = "acpiconf" -> { h.acpiconf.pct * PctScale }
      [] name = "sysctl"   -> { h.sysctl.life * PctScale }

\* C12: the readers run in the priority order of the OS (Linux: upower, then
\* sysfs; FreeBSD: acpiconf, then sysctl); a reader runs only after every
\* reader before it yielded no value; a returned value is the one of the
\* last reader run and carries that reader's name.
C12_PriorityOrder ==
    LET order == IF os = "linux" THEN << "upower", "sysfs" >>
                 ELSE << "acpiconf", "sysctl" >>
    IN  /\ Len(consulted) <= Len(order)
        /\ \A i \in DOMAIN consulted : consulted[i] = order[i]
        /\ \A i \in 1..(Len(consulted) - 1) : ~HasPercentage(consulted[i], host)
        /\ (BatteryCallDone /\ binfo.rc = 0) =>
              /\ binfo.source = LastReader
              /\ HasPercentage(LastReader, host)
              /\ binfo.percentage \in SourcePercentages(LastReader, host)

\* the fallback reader answered after the primary one yielded nothing
C12_Witness ==
    /\ BatteryCallDone /\ binfo.rc = 0
    /\ Len(consulted) = 2
    /\ binfo.source = consulted[2]

\* the source of a reader can be read and shows a power rate
HasRate(name, h) ==
    CASE name = "upower"   -> h.upower.ok /\ h.upower.rate >= 0
      [] name = "sysfs"    -> NodePower(h.bat0, -1) >= 0 \/ NodePower(h.bat1, -1) >= 0
      [] name = "acpiconf" -> h.acpiconf.ok /\ h.acpiconf.rate >= 0
      [] name = "sysctl"   -> h.sysctl.rate >= 0

\* C13: a reader whose source shows a percentage but no power rate, or a
\* rate but no percentage, signals failure: get_battery_info returns no
\* reading whose missing watts were filled in with 0.
C13_PartialReadingIsFailure ==
    (BatteryCallDone /\ binfo.rc = 0) =>
        (HasPercentage(LastReader, host) /\ HasRate(LastReader, host))

\* the temperatures the sensors of the host show, in 1/100 degree
TempReadings(o, sn) ==
    IF o = "linux"
    THEN { t \div 10 : t \in { sn.zone0, sn.hwmon, sn.coretemp } \ { -1 } }
    ELSE (IF sn.cputemp >= 0 THEN { sn.cputemp * 10 } ELSE { }) \cup
         (IF sn.tz0 >= 0 THEN { sn.tz0 * 10 - 27315 } ELSE { })

\* C16: get_system_metrics returns success on every path, and cpu_load,
\* ram_pct and temp_c each hold a reading of the host or the default 0 when
\* it returns: no output is left unassigned.
C16_MetricsAlwaysAssigned ==
    pc = "collected" =>
        /\ metrics.rc = 0
        /\ metrics.cpu_load \in { host.sensors.loadavg, 0 } \ { -1 }
        /\ metrics.ram_pct >= 0 /\ metrics.ram_pct <= 100 * 1000
        /\ metrics.temp_c \in TempReadings(os, host.sensors) \cup { 0 }

-----------------------------------------------------------------------------
(* Properties of the logging session *)

\* the records written by the session, in the file or still in the buffer
Written == disk \o stream

\* the timestamp of a record
StampOf(line) == line.fields[1].s

\* q is a prefix of r
IsPrefix(q, r) == Len(q) <= Len(r) /\ SubSeq(r, 1, Len(q)) = q

\* none of the battery sources of the host can be read
AllReadersFail(o, h) ==
    \A i \in DOMAIN ReaderOrder(o) : ~HasPercentage(ReaderOrder(o)[i], h)

\* C14: when every battery reader failed in a tick and no sample exists yet,
\* the tick still leaves a record in the log: zero watts, with the CPU, RAM
\* and temperature of the tick.
C14_FailedTickStillLogged ==
    (/\ pc \in { "lcheck", "lclose" }
     /\ log_sample_count = 0 /\ log_error_count >= 1
     /\ AllReadersFail(os, host)) =>
        \E i \in DOMAIN Written :
            /\ StampOf(Written[i]) = log_error_count - 1
            /\ parse_json_double(Written[i], "watts") = 0

\* C15: the sampling loop is left only after the interrupt flag was set;
\* failed collections never end it.
C15_LoopEndsOnlyOnInterrupt ==
    pc = "lclose" => running = 0

\* C17: a signal changes nothing of the session but the flag (the handler
\* also prints one notice on stderr); once the flag is down no further tick
\* starts; when cmd_log has returned the log is closed, nothing is left in
\* the buffer and every sample written is a complete line of the file; and
\* after a signal cmd_log does return.
C17_CooperativeCancellation ==
    /\ [][running' # running =>
            /\ running' = 0
            /\ UNCHANGED << disk, stream, log_file, log_sample_count,
                            log_error_count, pc >>]_vars
    /\ [](running = 0 => TicksStarted = sig_ticks)
    /\ [](pc = "lreturned" =>
            /\ log_file = "null" /\ stream = << >>
            /\ Len(disk) = log_sample_count
            /\ \A i \in DOMAIN disk : disk[i].eol /\ ~disk[i].short)
    /\ (running = 0 ~> pc \in { "lreturned", "lfailed" })

\* a signal arrived after samples were written, and cmd_log has returned
\* with the samples the last flush had not covered
C17_Witness ==
    /\ pc = "lreturned" /\ running = 0
    /\ sig_ticks >= 1
    /\ log_sample_count % 10 # 0
    /\ Len(disk) = log_sample_count

-----------------------------------------------------------------------------
(* Properties of the sessions of a host *)

\* the session has opened its log for writing
HasOpened(i) == sess[i].pc \in { "logging", "ended" }

\* C20: two logging sessions of a host, concurrent or one after the other,
\* with the same or with different configuration labels, never open the
\* same log file for writing: the file of a run has one writer.
C20_OneWriterPerLog ==
    \A i \in Sessions : \A j \in Sessions :
        (/\ i # j /\ HasOpened(i) /\ HasOpened(j)
         /\ sess[i].output = NoOutput /\ sess[j].output = NoOutput) =>
            sess[i].file # sess[j].file

-----------------------------------------------------------------------------
(* Properties of load_run_summaries and of the commands that call it *)

\* the second pass has started
Scanning == pc \in { "bscan", "breport", "bdone" } /\ exit_status # 1

\* the entries read so far whose analysis succeeds
SucceededSoFar ==
    { f \in visited : analyze_run(f, dirfiles[f], min_samples).result = 0 }

\* C21: load_run_summaries holds one summary for every file read so far
\* whose analyze_run succeeds, that file's own summary, however many other
\* files were rejected or unreadable and in whatever order the files are
\* read: a failing run neither ends the batch nor touches a stored summary.
C21_BatchIndependence ==
    Scanning =>
        /\ Len(summaries) = Cardinality(SucceededSoFar)
        /\ { summaries[i].run_id : i \in DOMAIN summaries } = SucceededSoFar
        /\ \A i \in DOMAIN summaries :
              summaries[i].summary =
                 analyze_run(summaries[i].run_id, dirfiles[summaries[i].run_id],
                             min_samples).summary
        /\ pc = "bdone" => visited = DOMAIN dirfiles

\* a batch of three files ended with one summary, a rejected run and an
\* unreadable file
C21_Witness ==
    /\ pc = "bdone" /\ exit_status = 0
    /\ Len(summaries) = 1
    /\ \E f \in DOMAIN dirfiles : ~dirfiles[f].readable
    /\ \E f \in DOMAIN dirfiles :
          dirfiles[f].readable /\ f \notin SucceededSoFar /\ dirfiles[f].lines # << >>

\* C26: `batlab report` and `batlab export` return a non-zero status when
\* the data directory holds no valid run: no log file, or every run rejected.
C26_NoValidRunsIsFailure ==
    (pc = "bdone" /\ Len(summaries) = 0) => exit_status # 0

\* C29: load_run_summaries never stores more summaries than the slots it
\* allocated after its first pass, also when .jsonl files appear in the
\* directory between the two passes.
C29_NeverBeyondSlots ==
    pc \in { "bscan", "breport", "bdone", "bcrashed" } => Len(summaries) <= jsonl_count

-----------------------------------------------------------------------------
(* Properties of the run id *)

\* C22: for every run id built by generate_run_id from a host name, a config
\* label and an optional workload, the fallback of analyze_run returns the
\* same config and the same workload (the empty workload when there was none).
C22_RunIdRoundTrip ==
    pc = "idone" =>
        /\ ident.parsed.config = ident.config
        /\ ident.parsed.workload =
             (IF ident.workload = NullWorkload THEN << >> ELSE ident.workload)

-----------------------------------------------------------------------------
(* Properties of the log line *)

\* the distance of two values is at most half a unit of the d-th decimal
WithinRounding(a, b, d) ==
    LET diff == IF a < b THEN b - a ELSE a - b
    IN  2 * diff <= Pow10(FineDecimals - d)

\* C23: a sample printed as the logger prints it and parsed as the run loader
\* parses it comes back field for field: the timestamp and the source tag
\* unchanged, each number within the rounding of its printed decimals.
C23_LogLineRoundTrip ==
    pc = "rdone" =>
        LET s == tsample.sample
            q == tsample.parsed
        IN  /\ q.timestamp = s.timestamp
            /\ q.source = s.source
            /\ WithinRounding(q.percentage, s.percentage, 1)
            /\ WithinRounding(q.watts, s.watts, 3)
            /\ WithinRounding(q.cpu_load, s.cpu_load, 2)
            /\ WithinRounding(q.ram_pct, s.ram_pct, 3)
            /\ WithinRounding(q.temp_c, s.temp_c, 2)

\* a sample whose percentage, watts, load and temperature are all changed by
\* the printing has been parsed
C23_Witness ==
    /\ pc = "rdone"
    /\ tsample.sample.percentage = 803456 /\ tsample.parsed.percentage = 803000
    /\ tsample.sample.watts = 61238 /\ tsample.parsed.watts = 61240
    /\ tsample.sample.temp_c = -123456 /\ tsample.parsed.temp_c = -123500
    /\ tsample.parsed.ram_pct = 401230

-----------------------------------------------------------------------------
(* Properties of the duration of a run *)

\* every sample has a time and the times go forward
TimestampsConsistent(smpls) ==
    /\ Len(smpls) >= 1
    /\ \A i \in DOMAIN smpls : smpls[i].timestamp \in DOMAIN SecondsOf
    /\ \A i \in 1..(Len(smpls) - 1) :
         SecondsOf[smpls[i].timestamp] < SecondsOf[smpls[i + 1].timestamp]

\* C24: when the first and the last sample of an analyzed run carry times
\* that are present and consistent, duration_s is the time from the first to
\* the last; the count times the nominal interval is only the fallback.
C24_DurationFromTimestamps ==
    (pc = "done" /\ result = 0 /\ TimestampsConsistent(valid)) =>
        summary.duration_s =
            SecondsOf[valid[Len(valid)].timestamp] - SecondsOf[valid[1].timestamp]

-----------------------------------------------------------------------------
(* Properties of the exit status of the logging command *)

\* C25: when no battery source is available from the start of `batlab log`,
\* so that every collection fails from the first tick on and the loop breaks
\* on the startup failure, the command does not return 0.
C25_NoBatteryIsFailure ==
    (log_sample_count = 0 /\ StartupFailure(log_error_count, log_sample_count))
        => pc # "lreturned"

-----------------------------------------------------------------------------
(* Properties of the values of a battery reading *)

\* C27: every reading get_battery_info returns with success, by whichever
\* reader and for whatever value its source shows, has a percentage within
\* [0, 100].
C27_PercentageInRange ==
    (BatteryCallDone /\ binfo.rc = 0) =>
        (0 <= binfo.percentage /\ binfo.percentage <= 100 * PctScale)

\* the rate *watts gets from a source, in 1/WattScale W
RateOf(name, h) ==
    LET rate == IF name = "upower" THEN h.upower.rate
                ELSE IF h.acpiconf.rate >= 0 THEN MilliToWatts(h.acpiconf.rate) ELSE -1
    IN  IF rate > 0 THEN rate ELSE 0

\* upower or acpiconf ran, reported 'discharging' and showed a percentage
DischargingReported ==
    /\ BatteryCallDone
    /\ LastReader \in { "upower", "acpiconf" }
    /\ HasPercentage(LastReader, host)
    /\ IF LastReader = "upower" THEN host.upower.state = TextDischarging
       ELSE host.acpiconf.state = TextDischarging

\* C28: when upower or acpiconf reports 'discharging' and a percentage,
\* get_battery_info succeeds and returns that percentage and the rate of the
\* source under the reader's tag; only a report of charging is a failure.
C28_DischargingIsRead ==
    DischargingReported =>
        /\ binfo.rc = 0
        /\ binfo.percentage \in SourcePercentages(LastReader, host)
        /\ binfo.watts = RateOf(LastReader, host)
        /\ binfo.source = LastReader

-----------------------------------------------------------------------------
(* Properties of the suspension inhibitors *)

\* C30: while a logging session that inhibited suspension is still sampling,
\* its inhibitor is in place; the end of a `batlab run` workload at the same
\* time, with its restore_system_suspension, does not remove it.
C30_LoggerInhibitorStays ==
    (pc = "suspend" /\ procs.log.pc = "sampling" /\ procs.log.prevented) =>
        \E x \in inhibitors : x.owner = "log"

====
